---- MODULE Spec2Model ----
(***************************************************************************)
(* Verification model of the OMNIA structural-measurement pipeline:        *)
(*   omnia/cas_diff.py            CASDiff (certificate differ)             *)
(*   omnia/zea.py                 ZEA (admissibility classifier)           *)
(*   omnia/generator.py           ConstrainedGenerator                     *)
(*   omnia/cas.py                 CASBuilder (certificate builder)         *)
(*   omnia/engine/superposition.py SuperpositionKernel                     *)
(*   omnia/omega.py               OmegaEstimator                           *)
(*                                                                         *)
(* Python floats are modelled as exact rationals <<n, d>> with d > 0 in    *)
(* lowest terms; <<0, 0>> stands for a value that is not a number (NaN, or *)
(* a missing / non-numeric JSON field).  Comparisons never multiply by the *)
(* denominator of eps (10^9), so every intermediate value fits 32 bits.    *)
(***************************************************************************)
EXTENDS Integers, Sequences, FiniteSets, TLC

VARIABLES
    \* ---- CASDiff.compare(a, b) ----
    dcfg,       \* CASDiffConfig of the differ
    certA,      \* older certificate
    certB,      \* newer certificate
    diffOut,    \* <<>> before compare returns, <<report>> after
    \* ---- ZEA.evaluate_text(baseline, candidate) ----
    zcfg,       \* ZEAConfig
    zin,        \* <<>> or <<[baseline |-> text, candidate |-> text]>>
    zrep,       \* <<>> or <<ZEAReport>>
    \* ---- ConstrainedGenerator.generate + CASBuilder.build ----
    gin,        \* generate's arguments (baseline, rounds, top_k, meta) and its ZEA
    gpc,        \* "idle", "new", "for_round", "for_source", "returned" or "built"
    r,          \* round index of the for loop
    pool,       \* texts to mutate in the current round
    src,        \* index into pool of the source being expanded
    next_pool,  \* (text, margin) pairs accepted in the current round
    accepted,   \* bucket of (Candidate, ZEAReport)
    saturated,
    rejected,
    evals,      \* log of the run: every candidate handed to ZEA, with round and report
    cap,        \* <<>> or <<CASConfig of the builder>>
    cert,       \* <<>> or <<certificate>>
    \* ---- SuperpositionKernel.run(reps) ----
    kin,        \* <<[names |-> names of reps, metric |-> distance per pair]>>
    kout,       \* <<>> or <<SuperpositionReport>>, or <<TypeError>>
    \* ---- OmegaEstimator.estimate / converged, and the caller's history ----
    oest,       \* <<>> or <<the estimator object: its attributes>>
    ohist,      \* the caller's history list (a mutable list object)
    ocalls,     \* log of the calls of estimate: arguments, returned report, and
                \* whether the caller appended the report to its history
    oconv,      \* <<>> or <<[history, result] of the last call of converged>>
    \* ---- CASDiff.compare with the arguments exchanged, builder inputs ----
    diffRev,    \* <<>> or <<the report of compare(certB, certA)>>
    bres,       \* <<>> or <<[cfg, a, b]: a CASConfig and two GenerationResults>>
    \* ---- tools/ci_gate.py main ----
    ci_pc,      \* position of main: "idle", "start", "loaded_a", "loaded_b",
                \* "compared", "written", "exited"
    ci_args,    \* <<>> or <<the parsed command line: [fail_on_loop]>>
    ci_file,    \* the report file at args.out: <<>> (absent) or <<its content>>
    ci_exit,    \* <<>> while running, then <<exit status of the process>>
    ci_out,     \* the lines printed on stdout
    \* ---- PermutationLens.views ----
    perm_in,    \* <<>> or <<[seed, parts]: the lens seed and the text>>
    perm_out    \* the value returned by each call of views, in call order

vars == <<dcfg, certA, certB, diffOut, zcfg, zin, zrep,
          gin, gpc, r, pool, src, next_pool, accepted, saturated, rejected,
          evals, cap, cert, kin, kout, oest, ohist, ocalls, oconv,
          diffRev, bres, ci_pc, ci_args, ci_file, ci_exit, ci_out,
          perm_in, perm_out>>

diffVars == <<dcfg, certA, certB, diffOut, diffRev, bres>>
zeaVars  == <<zcfg, zin, zrep>>
genVars  == <<gin, gpc, r, pool, src, next_pool, accepted, saturated, rejected,
              evals, cap, cert>>
kernVars == <<kin, kout>>
omegaVars == <<oest, ohist, ocalls, oconv>>
gateVars == <<ci_pc, ci_args, ci_file, ci_exit, ci_out>>
permVars == <<perm_in, perm_out>>

-----------------------------------------------------------------------------
(* Float arithmetic as exact rationals *)

Abs(x) == IF x < 0 THEN -x ELSE x

RECURSIVE GCD(_, _)
GCD(a, b) == IF b = 0 THEN a ELSE GCD(b, a % b)

\* n/d in lowest terms, d > 0
Rat(n, d) == LET g == GCD(Abs(n), d) IN <<n \div g, d \div g>>

NaN == <<0, 0>>
IsNum(x) == x[2] # 0

RZero == <<0, 1>>
ROne  == <<1, 1>>

RNeg(x) == <<-x[1], x[2]>>
RAbs(x) == <<Abs(x[1]), x[2]>>
\* over the least common denominator
RAdd(x, y) ==
    LET g == GCD(x[2], y[2])
    IN  Rat(x[1] * (y[2] \div g) + y[1] * (x[2] \div g), (x[2] \div g) * y[2])
RSub(x, y) == RAdd(x, RNeg(y))
RDivInt(x, k) == Rat(x[1], x[2] * k)
\* x / y for y > 0
RDiv(x, y) == Rat(x[1] * y[2], x[2] * y[1])

\* a/b < c/d for a, c >= 0 and b, d > 0, by comparing continued fractions
RECURSIVE FracLess(_, _, _, _)
FracLess(a, b, c, d) ==
    LET qa == a \div b
        qc == c \div d
        ra == a % b
        rc == c % d
    IN  IF qa # qc THEN qa < qc
        ELSE IF rc = 0 THEN FALSE
        ELSE IF ra = 0 THEN TRUE
        ELSE FracLess(d, rc, b, ra)

RLess(x, y) ==
    IF x[1] < 0 /\ y[1] >= 0 THEN TRUE
    ELSE IF x[1] >= 0 /\ y[1] < 0 THEN FALSE
    ELSE IF x[1] >= 0 THEN FracLess(x[1], x[2], y[1], y[2])
    ELSE FracLess(-y[1], y[2], -x[1], x[2])

RLeq(x, y) == ~RLess(y, x)
RMax(x, y) == IF RLess(x, y) THEN y ELSE x
RMin(x, y) == IF RLess(y, x) THEN y ELSE x

RECURSIVE RSum(_)
RSum(xs) == IF Len(xs) = 0 THEN RZero ELSE RAdd(Head(xs), RSum(Tail(xs)))

RECURSIVE RMinSeq(_)
RMinSeq(xs) == IF Len(xs) = 1 THEN xs[1] ELSE RMin(Head(xs), RMinSeq(Tail(xs)))

\* sequences of length <= n over S
SeqUpTo(S, n) == UNION {[1..k -> S] : k \in 0..n}

-----------------------------------------------------------------------------
(* omnia/cas_diff.py *)

MaxAcc   == 2      \* longest accepted bucket of a certificate given to compare
MaxOther == 1      \* most saturated plus rejected records of a certificate given to compare

\* CASDiffConfig() with its defaults
DefaultDiffCfg ==
    [eps |-> <<1, 1000000000>>, min_count_delta |-> 1,
     min_margin_delta |-> <<1, 50>>, min_delta_omega_delta |-> RZero,
     loop_tol |-> <<1, 50>>]

\* CASDiffConfig(eps=0.01, min_count_delta=2, min_margin_delta=0.01, loop_tol=0.0)
StrictDiffCfg ==
    [eps |-> <<1, 100>>, min_count_delta |-> 2,
     min_margin_delta |-> <<1, 100>>, min_delta_omega_delta |-> RZero,
     loop_tol |-> RZero]

\* CASDiffConfig(eps=0.0, min_count_delta=0, min_margin_delta=0.0, loop_tol=0.1)
ZeroDiffCfg ==
    [eps |-> RZero, min_count_delta |-> 0,
     min_margin_delta |-> RZero, min_delta_omega_delta |-> RZero,
     loop_tol |-> <<1, 10>>]

DiffConfigs == {DefaultDiffCfg, StrictDiffCfg, ZeroDiffCfg}

\* records of a certificate bucket, as _pack_item writes them (the fields _stats reads)
DiffItem(m, d) ==
    [saturation_margin |-> m, delta_omega |-> d,
     details |-> [snrc_pressure |-> RSub(ROne, m)]]
AccItems == {DiffItem(<<1, 2>>, RZero), DiffItem(<<13, 25>>, RZero),
             DiffItem(<<13, 25>>, <<-1, 50>>)}
EdgeItem == DiffItem(<<1, 20>>, RZero)
\* compare reads a bucket through its length, sums and minima: each bag of
\* records is given in one order, by rising margin and then falling delta-omega
InBagOrder(a) ==
    \A i \in 1..(Len(a) - 1) :
        \/ RLess(a[i].saturation_margin, a[i + 1].saturation_margin)
        \/ /\ a[i].saturation_margin = a[i + 1].saturation_margin
           /\ RLeq(a[i + 1].delta_omega, a[i].delta_omega)
DiffCerts ==
    {[buckets |-> [accepted |-> a, saturated |-> s, rejected |-> j]] :
        a \in {x \in SeqUpTo(AccItems, MaxAcc) : InBagOrder(x)},
        s \in SeqUpTo({EdgeItem}, MaxOther),
        j \in SeqUpTo({EdgeItem}, MaxOther)}

\* certificates that lack what build writes: older schemas, hand-made files
OnlySchemaCert == [schema |-> "CAS-1.0"]
OneBucketCert ==
    [timestamp_utc |-> "2025-01-01T00:00:00Z",
     buckets |-> [accepted |-> <<[saturation_margin |-> <<1, 2>>],
                               DiffItem(<<13, 25>>, RZero)>>]]
SparseItemsCert ==
    [summary |-> [status |-> "ADMISSIBLE"],
     buckets |-> [accepted |-> <<[delta_omega |-> <<-1, 50>>, details |-> [meta |-> "m"]],
                               [status |-> "ADMISSIBLE"]>>,
                  rejected |-> <<[status |-> "ILLEGITIMATE"]>>]]
NaNFieldsCert ==
    [timestamp_utc |-> "2025-01-02T00:00:00Z",
     summary |-> [status |-> "ADMISSIBLE"],
     buckets |-> [accepted |-> <<[saturation_margin |-> NaN, delta_omega |-> RZero,
                                 details |-> [snrc_pressure |-> NaN]],
                               DiffItem(<<1, 2>>, RZero)>>,
                  saturated |-> <<>>,
                  rejected |-> <<>>]]
MalformedCerts == {OnlySchemaCert, OneBucketCert, SparseItemsCert, NaNFieldsCert}

SafeMean(xs, default) ==
    IF Len(xs) = 0 THEN default ELSE RDivInt(RSum(xs), Len(xs))

\* list(cert.get("buckets", {}).get(name, []) or [])
Bucket(c, name) ==
    IF "buckets" \in DOMAIN c /\ name \in DOMAIN c.buckets THEN c.buckets[name] ELSE <<>>

\* extract with a field that is missing or NaN read as 0.0
ExtractMissingAsZero(items, key) ==
    [i \in 1..Len(items) |->
        IF key \in DOMAIN items[i] /\ IsNum(items[i][key]) THEN items[i][key] ELSE RZero]

\* extract(items, key): the numeric values of the field, in order
Extract(items, key) ==
    LET num == SelectSeq(items, LAMBDA it : key \in DOMAIN it /\ IsNum(it[key]))
    IN  [i \in 1..Len(num) |-> num[i][key]]

\* snrc_pressure(items): the numeric details.snrc_pressure values, in order
SnrcPressures(items) ==
    LET num == SelectSeq(items, LAMBDA it :
                   /\ "details" \in DOMAIN it
                   /\ "snrc_pressure" \in DOMAIN it.details
                   /\ IsNum(it.details.snrc_pressure))
    IN  [i \in 1..Len(num) |-> num[i].details.snrc_pressure]

BucketMeans(items) ==
    [mean_margin        |-> SafeMean(Extract(items, "saturation_margin"), RZero),
     mean_delta_omega   |-> SafeMean(Extract(items, "delta_omega"), RZero),
     mean_snrc_pressure |-> SafeMean(SnrcPressures(items), RZero)]

Stats(c) ==
    LET acc == Bucket(c, "accepted")
        sat == Bucket(c, "saturated")
        rej == Bucket(c, "rejected")
        acc_margins == Extract(acc, "saturation_margin")
        acc_domega  == Extract(acc, "delta_omega")
        acc_snrc    == SnrcPressures(acc)
    IN  [counts |-> [accepted |-> Len(acc), saturated |-> Len(sat), rejected |-> Len(rej)],
         accepted |->
            [mean_margin        |-> SafeMean(acc_margins, RZero),
             min_margin         |-> IF Len(acc_margins) > 0 THEN RMinSeq(acc_margins) ELSE RZero,
             mean_delta_omega   |-> SafeMean(acc_domega, RZero),
             min_delta_omega    |-> IF Len(acc_domega) > 0 THEN RMinSeq(acc_domega) ELSE RZero,
             mean_snrc_pressure |-> SafeMean(acc_snrc, RZero)],
         saturated |-> BucketMeans(sat),
         rejected  |-> BucketMeans(rej),
         signature |->
            [acc_rate |-> RZero, sat_rate |-> RZero, rej_rate |-> RZero,
             acc_mean_margin |-> SafeMean(acc_margins, RZero),
             acc_mean_domega |-> SafeMean(acc_domega, RZero),
             acc_mean_snrc   |-> SafeMean(acc_snrc, RZero)]]

SignatureFinalize(stats) ==
    LET c == stats.counts
        n == c.accepted + c.saturated + c.rejected
        total == IF n > 1 THEN n ELSE 1
    IN  [stats.signature EXCEPT !.acc_rate = Rat(c.accepted, total),
                                !.sat_rate = Rat(c.saturated, total),
                                !.rej_rate = Rat(c.rejected, total)]

RECURSIVE SumAbsDiff(_, _, _)
SumAbsDiff(keys, a, b) ==
    IF keys = {} THEN RZero
    ELSE LET k == CHOOSE x \in keys : TRUE
             va == IF k \in DOMAIN a THEN a[k] ELSE RZero
             vb == IF k \in DOMAIN b THEN b[k] ELSE RZero
         IN  RAdd(RAbs(RSub(va, vb)), SumAbsDiff(keys \ {k}, a, b))

\* a distance that leans on its first argument: its accepted rate is added
SigDistanceLeaning(a, b) ==
    LET keys == DOMAIN a \cup DOMAIN b
    IN  IF keys = {} THEN RZero
        ELSE RAdd(RDivInt(SumAbsDiff(keys, a, b), Cardinality(keys)), a.acc_rate)

SigDistance(a, b) ==
    LET keys == DOMAIN a \cup DOMAIN b
    IN  IF keys = {} THEN RZero
        ELSE RDivInt(SumAbsDiff(keys, a, b), Cardinality(keys))

\* Verdict with the regression test requiring all three drops at once
VerdictAllDown(delta_acc, delta_margin, delta_domega, cfg) ==
    IF /\ delta_acc <= -cfg.min_count_delta
       /\ RLeq(delta_margin, RNeg(cfg.min_margin_delta))
       /\ RLess(delta_domega, RNeg(cfg.eps))
    THEN [label |-> "REGRESSION",
          reason |-> "accepted_down_or_margin_down_or_delta_omega_down"]
    ELSE IF /\ delta_acc >= cfg.min_count_delta
            /\ RLeq(cfg.min_margin_delta, delta_margin)
            /\ RLeq(RNeg(cfg.eps), delta_domega)
    THEN [label |-> "PROGRESS",
          reason |-> "accepted_up_and_margin_up_and_delta_omega_not_down"]
    ELSE [label |-> "STALL", reason |-> "no_significant_change"]

\* Verdict with the sign of the count threshold lost
VerdictSignSlip(delta_acc, delta_margin, delta_domega, cfg) ==
    IF \/ delta_acc <= cfg.min_count_delta
       \/ RLeq(delta_margin, RNeg(cfg.min_margin_delta))
       \/ RLess(delta_domega, RNeg(cfg.eps))
    THEN [label |-> "REGRESSION",
          reason |-> "accepted_down_or_margin_down_or_delta_omega_down"]
    ELSE IF /\ delta_acc >= cfg.min_count_delta
            /\ RLeq(cfg.min_margin_delta, delta_margin)
            /\ RLeq(RNeg(cfg.eps), delta_domega)
    THEN [label |-> "PROGRESS",
          reason |-> "accepted_up_and_margin_up_and_delta_omega_not_down"]
    ELSE [label |-> "STALL", reason |-> "no_significant_change"]

\* Verdict with a strict count comparison
VerdictStrictCount(delta_acc, delta_margin, delta_domega, cfg) ==
    IF \/ delta_acc < -cfg.min_count_delta
       \/ RLeq(delta_margin, RNeg(cfg.min_margin_delta))
       \/ RLess(delta_domega, RNeg(cfg.eps))
    THEN [label |-> "REGRESSION",
          reason |-> "accepted_down_or_margin_down_or_delta_omega_down"]
    ELSE IF /\ delta_acc >= cfg.min_count_delta
            /\ RLeq(cfg.min_margin_delta, delta_margin)
            /\ RLeq(RNeg(cfg.eps), delta_domega)
    THEN [label |-> "PROGRESS",
          reason |-> "accepted_up_and_margin_up_and_delta_omega_not_down"]
    ELSE [label |-> "STALL", reason |-> "no_significant_change"]

\* the if / elif of compare that decides verdict and reason
Verdict(delta_acc, delta_margin, delta_domega, cfg) ==
    IF \/ delta_acc <= -cfg.min_count_delta
       \/ RLeq(delta_margin, RNeg(cfg.min_margin_delta))
       \/ RLess(delta_domega, RNeg(cfg.eps))
    THEN [label |-> "REGRESSION",
          reason |-> "accepted_down_or_margin_down_or_delta_omega_down"]
    ELSE IF /\ delta_acc >= cfg.min_count_delta
            /\ RLeq(cfg.min_margin_delta, delta_margin)
            /\ RLeq(RNeg(cfg.eps), delta_domega)
    THEN [label |-> "PROGRESS",
          reason |-> "accepted_up_and_margin_up_and_delta_omega_not_down"]
    ELSE [label |-> "STALL", reason |-> "no_significant_change"]

\* cert.get(key, None) of a string field; "None" stands for None
GetOrNone(c, key) == IF key \in DOMAIN c THEN c[key] ELSE "None"
\* cert.get("summary", {}); <<>> stands for {}
GetSummary(c) == IF "summary" \in DOMAIN c THEN c.summary ELSE <<>>

\* the loop test with < in place of <=
LoopLikeStrict(sig_dist, cfg) == RLess(sig_dist, cfg.loop_tol)

\* loop_like = sig_dist <= self.cfg.loop_tol
LoopLike(sig_dist, cfg) == RLeq(sig_dist, cfg.loop_tol)

Compare(a, b, cfg) ==
    LET sa == Stats(a)
        sb == Stats(b)
        siga == SignatureFinalize(sa)
        sigb == SignatureFinalize(sb)
        delta_acc    == sb.counts.accepted - sa.counts.accepted
        delta_margin == RSub(sb.accepted.mean_margin, sa.accepted.mean_margin)
        delta_domega == RSub(sb.accepted.mean_delta_omega, sa.accepted.mean_delta_omega)
        delta_snrc   == RSub(sb.accepted.mean_snrc_pressure, sa.accepted.mean_snrc_pressure)
        v == Verdict(delta_acc, delta_margin, delta_domega, cfg)
        sig_dist  == SigDistance(siga, sigb)
        loop_like == LoopLike(sig_dist, cfg)
    IN  [timestamp_utc |-> GetOrNone(b, "timestamp_utc"),
         a |-> [timestamp_utc |-> GetOrNone(a, "timestamp_utc"),
                summary |-> GetSummary(a),
                stats |-> [sa EXCEPT !.signature = siga], signature |-> siga],
         b |-> [timestamp_utc |-> GetOrNone(b, "timestamp_utc"),
                summary |-> GetSummary(b),
                stats |-> [sb EXCEPT !.signature = sigb], signature |-> sigb],
         delta |-> [accepted |-> delta_acc,
                    accepted_mean_margin |-> delta_margin,
                    accepted_mean_delta_omega |-> delta_domega,
                    accepted_mean_snrc_pressure |-> delta_snrc,
                    signature_distance |-> sig_dist,
                    loop_like |-> loop_like],
         verdict |-> [label |-> v.label, reason |-> v.reason,
                      loop_warning |-> loop_like]]

DiffIdle == /\ dcfg = DefaultDiffCfg /\ certA = <<>> /\ certB = <<>>
            /\ diffOut = <<>> /\ diffRev = <<>> /\ bres = <<>>

DiffInit ==
    /\ dcfg \in DiffConfigs
    /\ certA \in DiffCerts \cup MalformedCerts
    /\ certB \in DiffCerts \cup MalformedCerts
    /\ Len(Bucket(certA, "saturated")) + Len(Bucket(certA, "rejected")) <= MaxOther
    /\ Len(Bucket(certB, "saturated")) + Len(Bucket(certB, "rejected")) <= MaxOther
    /\ diffOut = <<>> /\ diffRev = <<>> /\ bres = <<>>

\* CASDiff(dcfg).compare(certA, certB)
DoCompare ==
    /\ diffOut = <<>>
    /\ diffOut' = <<Compare(certA, certB, dcfg)>>
    /\ UNCHANGED <<dcfg, certA, certB, diffRev, bres>>

\* CASDiff(dcfg).compare(certB, certA), after compare(certA, certB)
DoCompareBack ==
    /\ diffOut # <<>> /\ diffRev = <<>>
    /\ diffRev' = <<Compare(certB, certA, dcfg)>>
    /\ UNCHANGED <<dcfg, certA, certB, diffOut, bres>>

-----------------------------------------------------------------------------
(* tools/ci_gate.py *)

\* a path whose file is missing or is not JSON: open / json.load raises
Unreadable == [error |-> "FileNotFoundError"]

\* the uncaught exception of a failed open, json.load or write
GateRaised == "raised"

\* the files named by --a and --b
GateFiles == DiffCerts \cup MalformedCerts \cup {Unreadable}

GateFileOk(f) ==
    f = Unreadable \/
        Len(Bucket(f, "saturated")) + Len(Bucket(f, "rejected")) <= MaxOther

\* argparse: --a, --b, --out are required, --fail_on_loop is a flag
GateInit ==
    /\ ci_pc = "start"
    /\ ci_args \in {<<[a |-> fa, b |-> fb, out_writable |-> w, fail_on_loop |-> f]>> :
                        fa \in GateFiles, fb \in GateFiles,
                        w \in BOOLEAN, f \in BOOLEAN}
    /\ GateFileOk(ci_args[1].a) /\ GateFileOk(ci_args[1].b)
    /\ ci_file = <<>> /\ ci_exit = <<>> /\ ci_out = <<>>
    /\ dcfg = DefaultDiffCfg
    /\ certA = <<>> /\ certB = <<>>
    /\ diffOut = <<>> /\ diffRev = <<>> /\ bres = <<>>

\* an exception nobody catches ends the interpreter with status 1
GateUncaught ==
    /\ ci_pc' = GateRaised
    /\ ci_exit' = <<1>>

\* a = load(args.a)
GateLoadA ==
    /\ ci_pc = "start"
    /\ IF ci_args[1].a = Unreadable
          THEN GateUncaught /\ UNCHANGED certA
          ELSE ci_pc' = "loaded_a" /\ certA' = ci_args[1].a /\ UNCHANGED ci_exit
    /\ UNCHANGED <<ci_args, ci_file, ci_out, dcfg, certB, diffOut, diffRev, bres>>

\* b = load(args.b)
GateLoadB ==
    /\ ci_pc = "loaded_a"
    /\ IF ci_args[1].b = Unreadable
          THEN GateUncaught /\ UNCHANGED certB
          ELSE ci_pc' = "loaded_b" /\ certB' = ci_args[1].b /\ UNCHANGED ci_exit
    /\ UNCHANGED <<ci_args, ci_file, ci_out, dcfg, certA, diffOut, diffRev, bres>>

\* diff = CASDiff().compare(a, b, meta=...)
GateCompare ==
    /\ ci_pc = "loaded_b"
    /\ ci_pc' = "compared"
    /\ diffOut' = <<Compare(certA, certB, DefaultDiffCfg)>>
    /\ UNCHANGED <<ci_args, ci_file, ci_exit, ci_out, dcfg, certA, certB, diffRev, bres>>

\* out.parent.mkdir(...); with open(out, "w") as f: json.dump(diff, f, ...)
GateWrite ==
    /\ ci_pc = "compared"
    /\ IF ci_args[1].out_writable
          THEN ci_pc' = "written" /\ ci_file' = diffOut /\ UNCHANGED ci_exit
          ELSE GateUncaught /\ UNCHANGED ci_file
    /\ UNCHANGED <<ci_args, ci_out, diffVars>>

GateFailsOnAnyLoop(verdict, loop_like, fail_on_loop) ==
    verdict = "REGRESSION" \/ loop_like

\* if verdict == "REGRESSION": ... sys.exit(1)
\* if args.fail_on_loop and loop_like: ... sys.exit(1)
GateFails(verdict, loop_like, fail_on_loop) ==
    verdict = "REGRESSION" \/ (fail_on_loop /\ loop_like)

\* the prints and the decision that end main
GateDecide ==
    /\ ci_pc = "written"
    /\ LET verdict == diffOut[1].verdict.label
           loop_like == diffOut[1].verdict.loop_warning
           head == <<"CAS-DIFF written", "VERDICT", "DELTA">>
       IN  IF verdict = "REGRESSION"
             THEN ci_out' = ci_out \o head \o <<"FAIL: structural regression detected">>
                  /\ ci_exit' = <<1>>
             ELSE IF GateFails(verdict, loop_like, ci_args[1].fail_on_loop)
               THEN ci_out' = ci_out \o head
                              \o <<"FAIL: loop-like detected (no structural progress)">>
                    /\ ci_exit' = <<1>>
               ELSE ci_out' = ci_out \o head \o <<"PASS">>
                    /\ ci_exit' = <<0>>
    /\ ci_pc' = "exited"
    /\ UNCHANGED <<ci_args, ci_file, diffVars>>

-----------------------------------------------------------------------------
(* omnia/zea.py *)

\* ZEAConfig() with its defaults
DefaultZeaCfg ==
    [eps |-> <<1, 1000000000>>, delta_omega_floor |-> RZero,
     saturated_margin_max |-> <<2, 25>>, snrc_agg |-> "max"]

\* ZEAConfig(snrc_agg="mean")
MeanZeaCfg == [DefaultZeaCfg EXCEPT !.snrc_agg = "mean"]

\* ZEAConfig(eps=0.01, delta_omega_floor=0.25, saturated_margin_max=0.5)
LooseZeaCfg ==
    [eps |-> <<1, 100>>, delta_omega_floor |-> <<1, 4>>,
     saturated_margin_max |-> <<1, 2>>, snrc_agg |-> "max"]

\* ZEAConfig(snrc_agg="median"): a mode that is neither "max" nor "mean"
MedianZeaCfg == [DefaultZeaCfg EXCEPT !.snrc_agg = "median"]

\* ZEAConfig is a plain frozen dataclass and ZEA.__init__ stores config as it
\* is: no value of a field makes either construction fail
ZeaInitAccepts(cfg) == TRUE

ZeaConfigs ==
    {cfg \in {DefaultZeaCfg, MeanZeaCfg, LooseZeaCfg, MedianZeaCfg} : ZeaInitAccepts(cfg)}

LensNames == {"compression", "permutation", "constraints"}

\* A text is known to ZEA only through what the estimator and the kernel return
\* for it: omega is omega.estimate_from_text(text), raw[k] is
\* kernel.distance(text, lens_k.apply(text)).  The same text always carries the
\* same values.
ZeaText(o, c, p, k) ==
    [omega |-> o, raw |-> [compression |-> c, permutation |-> p, constraints |-> k]]
ZeaOmegas   == {<<1, 2>>, <<3, 4>>}
ZeaRawBase  == {RZero, <<1, 2>>, NaN}
ZeaRawCand  == {RZero, <<1, 2>>, <<3, 4>>, NaN}
ZeaBaselines ==
    {ZeaText(o, c, p, k) : o \in ZeaOmegas, c \in ZeaRawBase, p \in ZeaRawBase, k \in ZeaRawBase}
ZeaCandidates ==
    {ZeaText(o, c, p, k) : o \in ZeaOmegas, c \in ZeaRawCand, p \in ZeaRawCand, k \in ZeaRawCand}

EstimateFromText(text) == text.omega
KernelDistance(text, lens) == text.raw[lens]

\* d(a, b): NaN guard, then clamp into [0,1]
ClampDist(val) == IF ~IsNum(val) THEN ROne ELSE RMax(RZero, RMin(ROne, val))

LensInstabilityScores(text) ==
    [k \in LensNames |-> ClampDist(KernelDistance(text, k))]

\* Rel without the baseline score subtracted
RelNoBaseline(b, c, cfg) ==
    LET denom == RMax(cfg.eps, RAdd(b, <<1, 1000000>>))
    IN  RMin(ROne, RMax(RZero, RDiv(c, denom)))

\* rel[k] = min(1.0, max(0.0, (c - b) / max(eps, b + 1e-6)))
Rel(b, c, cfg) ==
    LET denom == RMax(cfg.eps, RAdd(b, <<1, 1000000>>))
    IN  RMin(ROne, RMax(RZero, RDiv(RSub(c, b), denom)))

RECURSIVE SumOver(_, _)
SumOver(f, keys) ==
    IF keys = {} THEN RZero
    ELSE LET k == CHOOSE x \in keys : TRUE
         IN  RAdd(f[k], SumOver(f, keys \ {k}))

RECURSIVE MaxOver(_, _)
MaxOver(f, keys) ==
    LET k == CHOOSE x \in keys : TRUE
    IN  IF keys = {k} THEN f[k] ELSE RMax(f[k], MaxOver(f, keys \ {k}))

\* the pressure pair with every aggregation mode read as "max"
SnrcPressurePairAlwaysMax(cfg, baseline, candidate) ==
    LET b_scores == LensInstabilityScores(baseline)
        c_scores == LensInstabilityScores(candidate)
        rel == [k \in DOMAIN c_scores |-> Rel(b_scores[k], c_scores[k], cfg)]
    IN  [pressure |-> IF DOMAIN rel # {} THEN MaxOver(rel, DOMAIN rel) ELSE RZero,
         details |-> [baseline_scores |-> b_scores, candidate_scores |-> c_scores,
                      relative_pressure |-> rel, agg |-> cfg.snrc_agg]]

SnrcPressurePair(cfg, baseline, candidate) ==
    LET b_scores == LensInstabilityScores(baseline)
        c_scores == LensInstabilityScores(candidate)
        rel == [k \in DOMAIN c_scores |-> Rel(b_scores[k], c_scores[k], cfg)]
        n == Cardinality(DOMAIN rel)
        pressure ==
            IF cfg.snrc_agg = "mean"
            THEN RDivInt(SumOver(rel, DOMAIN rel), IF n > 1 THEN n ELSE 1)
            ELSE IF DOMAIN rel # {} THEN MaxOver(rel, DOMAIN rel) ELSE RZero
    IN  [pressure |-> pressure,
         details |-> [baseline_scores |-> b_scores, candidate_scores |-> c_scores,
                      relative_pressure |-> rel, agg |-> cfg.snrc_agg]]

\* x < a - e, x >= a - e and x <= a + e, written without forming a -/+ e
LessThanMinus(x, a, e)  == RLess(e, RSub(a, x))
AtLeastMinus(x, a, e)   == RLeq(RSub(a, x), e)
AtMostPlus(x, a, e)     == RLeq(RSub(x, a), e)

\* Classify with the near-boundary test moved in front of the collapse test
ClassifySaturatedFirst(cfg, delta_omega, snrc_pressure, saturation_margin) ==
    IF LessThanMinus(delta_omega, cfg.delta_omega_floor, cfg.eps)
    THEN [status |-> "ILLEGITIMATE", notes |-> "structural regression"]
    ELSE IF AtMostPlus(saturation_margin, cfg.saturated_margin_max, cfg.eps)
    THEN [status |-> "SATURATED", notes |-> "near boundary"]
    ELSE IF AtLeastMinus(snrc_pressure, ROne, cfg.eps)
    THEN [status |-> "ILLEGITIMATE", notes |-> "collapse under superposition"]
    ELSE [status |-> "ADMISSIBLE", notes |-> "within admissible expansion zone"]

\* the if / elif chain of evaluate_text
Classify(cfg, delta_omega, snrc_pressure, saturation_margin) ==
    IF LessThanMinus(delta_omega, cfg.delta_omega_floor, cfg.eps)
    THEN [status |-> "ILLEGITIMATE", notes |-> "structural regression"]
    ELSE IF AtLeastMinus(snrc_pressure, ROne, cfg.eps)
    THEN [status |-> "ILLEGITIMATE", notes |-> "collapse under superposition"]
    ELSE IF AtMostPlus(saturation_margin, cfg.saturated_margin_max, cfg.eps)
    THEN [status |-> "SATURATED", notes |-> "near boundary"]
    ELSE [status |-> "ADMISSIBLE", notes |-> "within admissible expansion zone"]

\* saturation_margin = max(0.0, 1.0 - snrc_pressure)
SaturationMargin(snrc_pressure) == RMax(RZero, RSub(ROne, snrc_pressure))

\* snrc_candidate decided by the pressure alone
SnrcCandidatePressureOnly(status, snrc_pressure) == RLess(<<1, 2>>, snrc_pressure)

\* status in (SATURATED, ILLEGITIMATE) and snrc_pressure > 0.5
SnrcCandidate(status, snrc_pressure) ==
    /\ status \in {"SATURATED", "ILLEGITIMATE"}
    /\ RLess(<<1, 2>>, snrc_pressure)

EvaluateText(cfg, baseline_text, candidate_text, meta) ==
    LET omega_before == EstimateFromText(baseline_text)
        omega_after  == EstimateFromText(candidate_text)
        delta_omega  == RSub(omega_after, omega_before)
        pp == SnrcPressurePair(cfg, baseline_text, candidate_text)
        snrc_pressure == pp.pressure
        saturation_margin == SaturationMargin(snrc_pressure)
        c == Classify(cfg, delta_omega, snrc_pressure, saturation_margin)
        snrc_candidate == SnrcCandidate(c.status, snrc_pressure)
    IN  [status |-> c.status,
         delta_omega |-> delta_omega,
         omega_before |-> omega_before,
         omega_after |-> omega_after,
         snrc_candidate |-> snrc_candidate,
         saturation_margin |-> saturation_margin,
         notes |-> c.notes,
         details |-> [meta |-> meta, snrc_pressure |-> snrc_pressure,
                      pressure_details |-> pp.details]]

ZeaInit ==
    /\ zcfg \in ZeaConfigs
    /\ zin \in {<<[baseline |-> b, candidate |-> c]>> : b \in ZeaBaselines, c \in ZeaCandidates}
    /\ zrep = <<>>

\* ZEA(config=zcfg).evaluate_text(baseline, candidate)
DoEvaluate ==
    /\ zrep = <<>>
    /\ zrep' = <<EvaluateText(zcfg, zin[1].baseline, zin[1].candidate, <<>>)>>
    /\ UNCHANGED <<zcfg, zin>>

-----------------------------------------------------------------------------
(* omnia/generator.py: ConstrainedGenerator *)

MaxRounds == 2     \* largest rounds argument of generate
MaxTopK   == 2     \* largest top_k argument of generate

Min2(a, b) == IF a <= b THEN a ELSE b
Max2(a, b) == IF a >= b THEN a ELSE b

\* seq[:n] of Python, for n of either sign
Slice(seq, n) ==
    IF n >= 0 THEN SubSeq(seq, 1, Min2(n, Len(seq)))
    ELSE SubSeq(seq, 1, Max2(0, Len(seq) + n))

Range(seq) == {seq[i] : i \in DOMAIN seq}

\* A text is the sequence of its sentences: <<s1, ..., sn>> is the string
\* "s1. s2. ... sn.", <<>> is the empty string and <<"">> is ".".
\* The sentences are named by codes:
\*   "omnia"          OMNIA measures structural invariants
\*   "neg_meaning"    It does not interpret meaning
\*   "neg_semantics"  It does not interpret semantics
\*   "neg_decisions"  It does not make decisions
\*   "neg_actions"    It does not decide actions
\*   "structural"     It measures invariants under transformations and stops at
\*                    structural saturation
\*   "scope"          It is model-agnostic and post-inference: it evaluates outputs,
\*                    not intentions
\*   "measurable"     Output is a certificate: ADMISSIBLE, SATURATED, or ILLEGITIMATE
\*   ""               the empty sentence
EmptyText == <<>>
DemoText  == <<"omnia", "neg_meaning", "neg_decisions">>
GenBaselines ==
    {DemoText, <<"structural", "omnia">>, <<"neg_meaning">>, EmptyText}

\* what an operator returns before _candidates strips it: the text and whether
\* white space precedes it
RawOut(lead, text) == [lead |-> lead, text |-> text]
IsEmptyOut(out) == ~out.lead /\ out.text = EmptyText
Strip(out) == out.text

\* _split_sentences: the non-empty sentences between the dots
SplitSentences(text) == SelectSeq(text, LAMBDA s : s # "")

\* _join_sentences: ". ".join(sents).strip() + "."
JoinSentences(sents) == IF sents = <<>> THEN <<"">> ELSE sents

\* s + clause unless the clause is already in s (s = text.strip())
AppendClause(text, clause) ==
    IF clause \in Range(text) THEN RawOut(FALSE, text)
    ELSE IF text = EmptyText THEN RawOut(TRUE, <<clause>>)
    ELSE RawOut(FALSE, Append(text, clause))

OpAddStructuralClauses(text) == AppendClause(text, "structural")

\* "does not interpret meaning" -> "does not interpret semantics"
ReplaceMeaning(s) == IF s = "neg_meaning" THEN "neg_semantics" ELSE s
\* "It does not make decisions" -> "It does not decide actions"
ReplaceDecisions(s) == IF s = "neg_decisions" THEN "neg_actions" ELSE s

OpRemoveRedundancy(text) ==
    RawOut(FALSE, [i \in 1..Len(text) |-> ReplaceMeaning(text[i])])

OpNormalizeNegations(text) ==
    LET sents  == SplitSentences(text)
        mapped == [i \in 1..Len(sents) |-> ReplaceDecisions(ReplaceMeaning(sents[i]))]
    IN  RawOut(FALSE, JoinSentences(mapped))

\* " is " in the lowered sentence, or it starts with "omnia"
IsDefinition(s) == s \in {"omnia", "scope", "measurable"}
\* "does not" in the lowered sentence
IsNegation(s) == s \in {"neg_meaning", "neg_semantics", "neg_decisions", "neg_actions"}

OpReorderClauses(text) ==
    LET sents == SplitSentences(text)
        defs  == SelectSeq(sents, IsDefinition)
        neg   == SelectSeq(sents, LAMBDA s : ~IsDefinition(s) /\ IsNegation(s))
        other == SelectSeq(sents, LAMBDA s : ~IsDefinition(s) /\ ~IsNegation(s))
    IN  IF Len(sents) < 2 THEN RawOut(FALSE, text)
        ELSE RawOut(FALSE, JoinSentences(defs \o other \o neg))

OpAddScopeLimits(text) == AppendClause(text, "scope")

OpMakeMeasurable(text) == AppendClause(text, "measurable")

\* the ops list of _candidates, by fn.__name__
OpNames ==
    <<"_op_add_structural_clauses", "_op_remove_redundancy", "_op_normalize_negations",
      "_op_reorder_clauses", "_op_add_scope_limits", "_op_make_measurable">>

ApplyOp(name, text) ==
    CASE name = "_op_add_structural_clauses" -> OpAddStructuralClauses(text)
      [] name = "_op_remove_redundancy"      -> OpRemoveRedundancy(text)
      [] name = "_op_normalize_negations"    -> OpNormalizeNegations(text)
      [] name = "_op_reorder_clauses"        -> OpReorderClauses(text)
      [] name = "_op_add_scope_limits"       -> OpAddScopeLimits(text)
      [] name = "_op_make_measurable"        -> OpMakeMeasurable(text)

Candidate(text, op) == [text |-> text, op |-> op, meta |-> [op |-> op]]

\* the loop of _candidates from the i-th operator on, given the outputs seen so far
RECURSIVE CandidatesFrom(_, _, _)
CandidatesFrom(i, text, seen) ==
    IF i > Len(OpNames) THEN <<>>
    ELSE LET raw == ApplyOp(OpNames[i], text)
             out == Strip(raw)
         IN  IF IsEmptyOut(raw) THEN CandidatesFrom(i + 1, text, seen)
             ELSE IF out = EmptyText \/ out = text THEN CandidatesFrom(i + 1, text, seen)
             ELSE IF out \in seen THEN CandidatesFrom(i + 1, text, seen)
             ELSE <<Candidate(out, OpNames[i])>>
                      \o CandidatesFrom(i + 1, text, seen \cup {out})

\* the six operator outputs taken as they come, nothing filtered
CandidatesUnfiltered(text) ==
    [i \in 1..Len(OpNames) |-> Candidate(Strip(ApplyOp(OpNames[i], text)), OpNames[i])]

Candidates(text) == CandidatesFrom(1, text, {})

\* The estimator, kernel and lenses inside the ZEA are injected: what they measure
\* on a text is a function of the text.  A measure assigns one of the readings
\* below to every text through its key.
GenReadings ==
    {ZeaText(<<1, 2>>, <<1, 2>>, <<1, 2>>, <<1, 2>>),
     ZeaText(<<1, 2>>, <<3, 4>>, <<1, 2>>, <<1, 2>>),
     ZeaText(<<3, 4>>, NaN, <<1, 2>>, <<1, 2>>),
     ZeaText(<<1, 4>>, <<1, 2>>, <<1, 2>>, <<1, 2>>)}
TextKeys == {0, 1, 2}
SentWeight(s) ==
    CASE s \in {"neg_semantics", "neg_actions", "structural", "measurable"} -> 1
      [] s = "scope" -> 2
      [] OTHER -> 0
\* a key that depends on the sentences and on their places
RECURSIVE SumWeights(_, _)
SumWeights(text, i) ==
    IF i > Len(text) THEN 0 ELSE i * SentWeight(text[i]) + SumWeights(text, i + 1)
TextKey(text) == SumWeights(text, 1) % Cardinality(TextKeys)
GenMeasures == [TextKeys -> GenReadings]

\* {**a, **b}
MergeMeta(a, b) ==
    [k \in DOMAIN a \cup DOMAIN b |-> IF k \in DOMAIN b THEN b[k] ELSE a[k]]

GenMeta == [demo |-> "zea_to_cas"]
\* caller metadata that uses the keys the generator writes itself
ClashMeta == [round |-> 7, op |-> "manual"]
GenMetas == {GenMeta, ClashMeta}

\* self.zea.evaluate_text(baseline, cand.text, meta={"round": r, **cand.meta, **meta})
EvaluateCandidate(g, rnd, cand) ==
    EvaluateText(g.zcfg, g.measure[TextKey(g.baseline)], g.measure[TextKey(cand.text)],
                 MergeMeta(MergeMeta([round |-> rnd], cand.meta), g.meta))

\* the bucket of the if / elif / else on rep.status, with SATURATED reports rejected
BucketOfSaturatedRejected(rep) ==
    IF rep.status = "ADMISSIBLE" THEN "accepted" ELSE "rejected"

\* the bucket of the if / elif / else on rep.status
BucketOf(rep) ==
    IF rep.status = "ADMISSIBLE" THEN "accepted"
    ELSE IF rep.status = "SATURATED" THEN "saturated"
    ELSE "rejected"

\* the (Candidate, ZEAReport) pairs of one source, in the order they are evaluated
EvaluateSource(g, rnd, source) ==
    LET cs == Candidates(source)
    IN  [i \in 1..Len(cs) |-> [cand |-> cs[i], rep |-> EvaluateCandidate(g, rnd, cs[i])]]

InBucket(pairs, name) == SelectSeq(pairs, LAMBDA e : BucketOf(e.rep) = name)

\* list.sort(key=lambda x: x[1], reverse=True) is a stable sort, larger keys first:
\* seq[i] lands behind every element with a larger key and behind the earlier
\* elements with an equal key
Rank(seq, i) ==
    1 + Cardinality({j \in DOMAIN seq : RLess(seq[i][2], seq[j][2])})
      + Cardinality({j \in 1..(i - 1) : seq[j][2] = seq[i][2]})
SortDesc(seq) ==
    [p \in DOMAIN seq |-> seq[CHOOSE i \in DOMAIN seq : Rank(seq, i) = p]]

\* the sort of line 77 left out
KeepTopUnsorted(np, top_k) == Slice(np, Max2(1, top_k))

\* next_pool.sort(...); next_pool[: max(1, top_k)]
KeepTop(np, top_k) == Slice(SortDesc(np), Max2(1, top_k))

Texts(np) == [i \in 1..Len(np) |-> np[i][1]]

\* range(rounds) exhausted, or the pool empty
RangeExhaustedOrPoolEmpty(rnd, rounds) == rnd >= rounds \/ pool = <<>>

\* for r in range(rounds) has no further value: the loop looks at nothing else
RangeExhausted(rnd, rounds) == rnd >= rounds

GenInit ==
    /\ gin \in [baseline : GenBaselines, rounds : -1..MaxRounds, top_k : -1..MaxTopK,
                meta : GenMetas, zcfg : {DefaultZeaCfg}, measure : GenMeasures]
    /\ gin.meta = ClashMeta => gin.rounds = 1 /\ gin.top_k = 1
    /\ gpc = "for_round"
    /\ r = 0
    /\ pool = <<gin.baseline>>
    /\ src = 1
    /\ next_pool = <<>>
    /\ accepted = <<>> /\ saturated = <<>> /\ rejected = <<>>
    /\ evals = <<>>
    /\ cap = <<>> /\ cert = <<>>

\* for r in range(rounds): next_pool = []
BeginRound ==
    /\ gpc = "for_round" /\ ~RangeExhausted(r, gin.rounds)
    /\ next_pool' = <<>>
    /\ src' = 1
    /\ gpc' = "for_source"
    /\ UNCHANGED <<gin, r, pool, accepted, saturated, rejected, evals, cap, cert>>
    /\ UNCHANGED <<diffVars, zeaVars, kernVars, omegaVars, gateVars, permVars>>

\* one iteration of "for source in pool": every candidate of the source is evaluated
\* and appended to its bucket
ExpandSource ==
    /\ gpc = "for_source" /\ src <= Len(pool)
    /\ \E ev \in {EvaluateSource(gin, r, pool[src])} :
       \E adm \in {InBucket(ev, "accepted")} :
           /\ accepted'  = accepted \o adm
           /\ next_pool' = next_pool \o
                  [i \in 1..Len(adm) |-> <<adm[i].cand.text, adm[i].rep.saturation_margin>>]
           /\ saturated' = saturated \o InBucket(ev, "saturated")
           /\ rejected'  = rejected \o InBucket(ev, "rejected")
           /\ evals' = evals \o [i \in 1..Len(ev) |-> [round |-> r, cand |-> ev[i].cand,
                                                       rep |-> ev[i].rep]]
    /\ src' = src + 1
    /\ UNCHANGED <<gin, gpc, r, pool, cap, cert>>
    /\ UNCHANGED <<diffVars, zeaVars, kernVars, omegaVars, gateVars, permVars>>

\* the end of a round: sort next_pool, keep its top_k texts as the next pool
EndRound ==
    /\ gpc = "for_source" /\ src > Len(pool)
    /\ next_pool' = SortDesc(next_pool)
    /\ pool' = Texts(KeepTop(next_pool, gin.top_k))
    /\ r' = r + 1
    /\ gpc' = "for_round"
    /\ UNCHANGED <<gin, src, accepted, saturated, rejected, evals, cap, cert>>
    /\ UNCHANGED <<diffVars, zeaVars, kernVars, omegaVars, gateVars, permVars>>

\* return GenerationResult(...)
Return ==
    /\ gpc = "for_round" /\ RangeExhausted(r, gin.rounds)
    /\ gpc' = "returned"
    /\ UNCHANGED <<gin, r, pool, src, next_pool, accepted, saturated, rejected, evals,
                   cap, cert>>
    /\ UNCHANGED <<diffVars, zeaVars, kernVars, omegaVars, gateVars, permVars>>

GenerationResult ==
    [baseline |-> gin.baseline, accepted |-> accepted, saturated |-> saturated,
     rejected |-> rejected]

-----------------------------------------------------------------------------
(* omnia/cas.py: CASBuilder *)

MaxCap == 2                \* largest max_items_per_bucket tried besides the default
DefaultMaxItems == 25      \* CASConfig.max_items_per_bucket

CASConfig(max_items) ==
    [schema_version |-> "CAS-1.0", engine |-> "OMNIA", artifact |-> "CAS",
     max_items_per_bucket |-> max_items]
CASConfigs == {CASConfig(c) : c \in (-1..MaxCap) \cup {DefaultMaxItems}}

\* _iso_utc_now() reads the clock
Clock == {"2025-01-01T00:00:00+00:00"}

PackItem(cand, rep) ==
    [op |-> cand.op, text |-> cand.text, delta_omega |-> rep.delta_omega,
     omega_before |-> rep.omega_before, omega_after |-> rep.omega_after,
     snrc_candidate |-> rep.snrc_candidate, saturation_margin |-> rep.saturation_margin,
     notes |-> rep.notes, details |-> rep.details]

\* [_pack_item(c, r) for (c, r) in bucket[: max_items_per_bucket]]
PackBucket(bucket, max_items) ==
    LET kept == Slice(bucket, max_items)
    IN  [i \in 1..Len(kept) |-> PackItem(kept[i].cand, kept[i].rep)]

\* the status rollup with the accepted bucket not consulted
RollupStatusSaturatedWins(result) ==
    IF Len(result.saturated) > 0 THEN "SATURATED"
    ELSE IF Len(result.accepted) = 0 THEN "ILLEGITIMATE"
    ELSE "OPEN"

\* status = "OPEN", then the two ifs in turn
RollupStatus(result) ==
    LET s1 == IF Len(result.accepted) = 0 /\ Len(result.saturated) > 0
              THEN "SATURATED" ELSE "OPEN"
    IN  IF Len(result.accepted) = 0 /\ Len(result.saturated) = 0
        THEN "ILLEGITIMATE" ELSE s1

StopRecommended(status) == status \in {"SATURATED", "ILLEGITIMATE"}

StopReason(status) ==
    IF StopRecommended(status)
    THEN (IF status = "SATURATED" THEN "structural_saturation" ELSE "noise_regime")
    ELSE "continue"

Build(cfg, result, run_meta, now) ==
    LET status == RollupStatus(result)
    IN  [schema |-> cfg.schema_version,
         engine |-> cfg.engine,
         artifact |-> cfg.artifact,
         timestamp_utc |-> now,
         run_meta |-> run_meta,
         baseline |-> [text |-> result.baseline],
         summary |-> [status |-> status,
                      stop_recommended |-> StopRecommended(status),
                      stop_reason |-> StopReason(status),
                      counts |-> [accepted |-> Len(result.accepted),
                                  saturated |-> Len(result.saturated),
                                  rejected |-> Len(result.rejected)]],
         buckets |-> [accepted |-> PackBucket(result.accepted, cfg.max_items_per_bucket),
                      saturated |-> PackBucket(result.saturated, cfg.max_items_per_bucket),
                      rejected |-> PackBucket(result.rejected, cfg.max_items_per_bucket)]]

\* CASBuilder(config).build(result, run_meta=meta) on the result of generate
DoBuild ==
    /\ gpc = "returned"
    /\ \E cfg \in CASConfigs, now \in Clock :
          /\ cap' = <<cfg>>
          /\ cert' = <<Build(cfg, GenerationResult, gin.meta, now)>>
    /\ gpc' = "built"
    /\ UNCHANGED <<gin, r, pool, src, next_pool, accepted, saturated, rejected, evals>>
    /\ UNCHANGED <<diffVars, zeaVars, kernVars, omegaVars, gateVars, permVars>>

\* ---- two runs certified under one configuration and then compared ----

MaxRunAccepted == 3    \* most accepted items of a run handed to build

\* (Candidate, ZEAReport) pairs as generate collects them in result.accepted
RunPair(reading) ==
    [cand |-> Candidate(<<"omnia", "structural">>, "_op_add_structural_clauses"),
     rep  |-> EvaluateText(DefaultZeaCfg, ZeaText(<<1, 2>>, <<1, 2>>, <<1, 2>>, <<1, 2>>),
                           reading, [round |-> 0, op |-> "_op_add_structural_clauses"])]
RunPairs ==
    {p \in {RunPair(ZeaText(<<1, 2>>, <<1, 2>>, <<1, 2>>, <<1, 2>>)),
            RunPair(ZeaText(<<3, 4>>, <<5, 8>>, <<1, 2>>, <<1, 2>>))} :
        p.rep.status = "ADMISSIBLE"}
RunResults ==
    {[baseline |-> DemoText, accepted |-> acc, saturated |-> <<>>, rejected |-> <<>>] :
        acc \in SeqUpTo(RunPairs, MaxRunAccepted)}

BuiltInit ==
    /\ bres \in {<<[cfg |-> cfg, a |-> a, b |-> b]>> :
                     cfg \in CASConfigs, a \in RunResults, b \in RunResults}
    /\ dcfg = DefaultDiffCfg
    /\ certA = <<>> /\ certB = <<>>
    /\ diffOut = <<>> /\ diffRev = <<>>

\* cert_a = CASBuilder(cfg).build(result_a)
BuildA ==
    /\ certA = <<>>
    /\ \E now \in Clock : certA' = Build(bres[1].cfg, bres[1].a, <<>>, now)
    /\ UNCHANGED <<dcfg, certB, diffOut, diffRev, bres>>

\* cert_b = CASBuilder(cfg).build(result_b)
BuildB ==
    /\ certB = <<>>
    /\ \E now \in Clock : certB' = Build(bres[1].cfg, bres[1].b, <<>>, now)
    /\ UNCHANGED <<dcfg, certA, diffOut, diffRev, bres>>

\* CASDiff().compare(cert_a, cert_b) once both certificates exist
CompareBuilt ==
    /\ certA # <<>> /\ certB # <<>>
    /\ DoCompare

-----------------------------------------------------------------------------
(* omnia/engine/superposition.py: SuperpositionKernel *)

MaxReps == 3       \* most representations handed to run

\* float operations with NaN as Python computes them
PyLess(x, y) == IsNum(x) /\ IsNum(y) /\ RLess(x, y)
PyMax(a, b) == IF PyLess(a, b) THEN b ELSE a
PyMin(a, b) == IF PyLess(b, a) THEN b ELSE a
PyAdd(x, y) == IF IsNum(x) /\ IsNum(y) THEN RAdd(x, y) ELSE NaN
PySub(x, y) == IF IsNum(x) /\ IsNum(y) THEN RSub(x, y) ELSE NaN
PyDivInt(x, k) == IF IsNum(x) THEN RDivInt(x, k) ELSE NaN
\* sum(scores)
PySum(xs) == IF \A i \in 1..Len(xs) : IsNum(xs[i]) THEN RSum(xs) ELSE NaN

\* A name is a sequence of tokens, so that joining two names around "__" is the
\* concatenation the f-string performs
KernNames == {<<"orig">>, <<"perm_1">>}
\* what the injected metric may return for a pair
KernDists == {<<-1, 2>>, <<1, 2>>, <<3, 4>>, <<3, 2>>, NaN}

\* the keyword argument fracture_threshold of a construction: <<>> when it is not
\* passed, <<t>> when it is passed as t
KernThresholds == {<<>>, <<<<1, 2>>>>, <<<<3, 4>>>>}

\* def __init__(self, metric): the only parameter is metric, so a call that
\* passes fracture_threshold raises TypeError and no kernel exists
InitAccepts(fracture_threshold) == fracture_threshold = <<>>
TypeError == [raised |-> "TypeError"]

\* the index pairs of the two nested loops, and their order
PairSet(n) == {p \in (1..n) \X (1..n) : p[1] < p[2]}
PairsBefore(p, n) == {q \in PairSet(n) : q[1] < p[1] \/ (q[1] = p[1] /\ q[2] < p[2])}
PairSeq(n) ==
    [h \in 1..Cardinality(PairSet(n)) |->
        CHOOSE p \in PairSet(n) : Cardinality(PairsBefore(p, n)) = h - 1]

\* f"{reps[i].name}__{reps[j].name}"
PairKey(names, p) == names[p[1]] \o <<"__">> \o names[p[2]]

\* d > 0.5
IsFracture(d) == PyLess(<<1, 2>>, d)

\* max(0.0, min(1.0, 1.0 - mean_d))
Invariance(mean_d) == PyMax(RZero, PyMin(ROne, PySub(ROne, mean_d)))

\* SuperpositionKernel(metric).run(reps): names are the names of reps in order,
\* metric[p] is what self.metric returns for the pair p of them
Run(names, metric) ==
    LET n      == Len(names)
        ps     == PairSeq(n)
        scores == [h \in 1..Len(ps) |-> metric[ps[h]]]
        keys   == [h \in 1..Len(ps) |-> PairKey(names, ps[h])]
        \* pairwise[key] = d: a later pair of the same key overwrites
        last(k) == CHOOSE h \in 1..Len(ps) :
                       keys[h] = k /\ \A g \in 1..Len(ps) : keys[g] = k => g <= h
        frac   == SelectSeq(ps, LAMBDA p : IsFracture(metric[p]))
        mean_d == IF Len(scores) > 0 THEN PyDivInt(PySum(scores), Len(scores)) ELSE RZero
    IN  [pairwise   |-> [k \in Range(keys) |-> scores[last(k)]],
         invariance |-> Invariance(mean_d),
         fractures  |-> [h \in 1..Len(frac) |-> PairKey(names, frac[h])],
         meta       |-> [n_views |-> n]]

KernInit ==
    /\ kin \in {<<[names |-> ns, metric |-> m, fracture_threshold |-> t]>> :
                   ns \in SeqUpTo(KernNames, MaxReps), m \in [PairSet(MaxReps) -> KernDists],
                   t \in KernThresholds}
    /\ kout = <<>>

\* kernel = SuperpositionKernel(metric=metric[, fracture_threshold=t]);
\* report = kernel.run(reps)
DoRun ==
    /\ kout = <<>>
    /\ kout' = IF InitAccepts(kin[1].fracture_threshold)
               THEN <<Run(kin[1].names, kin[1].metric)>>
               ELSE <<TypeError>>
    /\ UNCHANGED kin
    /\ UNCHANGED <<diffVars, zeaVars, genVars, omegaVars, gateVars, permVars>>

-----------------------------------------------------------------------------
(* omnia/omega.py: OmegaEstimator *)

MaxCalls == 3      \* most calls of estimate in a run

\* A representation is known by its name and by the payload the metric looks at
OmegaRep(name, payload) == [name |-> name, payload |-> payload]
\* lens.views(obj): the original first, then the lens's variants (here the first
\* variant only)
CompressionViews == <<OmegaRep(<<"orig">>, 0), OmegaRep(<<"summary_64">>, 1)>>
PermutationViews == <<OmegaRep(<<"orig">>, 0), OmegaRep(<<"perm_seed_1">>, 2)>>
\* the lenses argument of a call
OmegaLensSets ==
    {<<>>, <<CompressionViews>>, <<CompressionViews, PermutationViews>>}

\* the metric injected into the estimator's kernel: 0 between equal payloads,
\* otherwise scale times how far apart the payloads are (NaN for a NaN scale)
OmegaScales == {<<1, 4>>, <<3, 4>>, NaN}
OmegaMetric(scale, a, b) ==
    IF a.payload = b.payload THEN RZero
    ELSE IF IsNum(scale) THEN Rat(scale[1] * Abs(a.payload - b.payload), scale[2])
    ELSE NaN

PyAbs(x) == IF IsNum(x) THEN RAbs(x) ELSE NaN

\* for lens in lenses: reps.extend(lens.views(obj))
RECURSIVE CollectViews(_)
CollectViews(lenses) ==
    IF lenses = <<>> THEN <<>> ELSE Head(lenses) \o CollectViews(Tail(lenses))

\* the last representation of every name, in order
DedupeRepsKeepLast(reps) ==
    LET keep == {i \in 1..Len(reps) :
                    \A j \in (i + 1)..Len(reps) : reps[j].name # reps[i].name}
    IN  [h \in 1..Cardinality(keep) |->
            reps[CHOOSE i \in keep : Cardinality({j \in keep : j < i}) = h - 1]]

\* _dedupe_reps_by_name: the first representation of every name, in order
DedupeRepsByName(reps) ==
    LET keep == {i \in 1..Len(reps) : \A j \in 1..(i - 1) : reps[j].name # reps[i].name}
    IN  [h \in 1..Cardinality(keep) |->
            reps[CHOOSE i \in keep : Cardinality({j \in keep : j < i}) = h - 1]]

\* the reps of estimate when self.kernel.run(reps) is called
KernelReps(self, lenses) ==
    LET collected == CollectViews(lenses)
    IN  IF self.dedupe_views THEN DedupeRepsByName(collected) ELSE collected

\* _clamp01
OmegaClamp01(x) ==
    IF PyLess(x, RZero) THEN RZero ELSE IF PyLess(ROne, x) THEN ROne ELSE x

\* The history argument of a call is <<>> when it is omitted (None) and <<list>>
\* when a list is passed.  history = history or []
HistoryOrEmpty(history) == IF history = <<>> THEN <<>> ELSE history[1]

\* the previous invariance taken from the first entry of history
PrevInvarianceOfFirst(history, inv) ==
    IF history # <<>> THEN history[1].invariance ELSE inv

\* prev_inv = history[-1].invariance if history else inv
PrevInvariance(history, inv) ==
    IF history # <<>> THEN history[Len(history)].invariance ELSE inv

\* compute_sei / compute_iri as the module has them after its imports: None
\* when the import failed, otherwise a function, known here by what a call of
\* it does: return a number, raise, or return something float() rejects
NoHook == [kind |-> "None"]
HookReturns(v) == [kind |-> "returns", value |-> v]
HookRaises == [kind |-> "raises"]
HookReturnsText == [kind |-> "returns_text"]
HookPairs ==
    {<<NoHook, NoHook>>, <<HookReturns(<<1, 2>>), HookReturns(<<1, 4>>)>>,
     <<HookRaises, HookReturns(<<1, 4>>)>>, <<HookReturns(<<1, 2>>), HookRaises>>,
     <<HookReturnsText, HookRaises>>, <<NoHook, HookReturnsText>>}

\* the hook called whether or not there is a history
HookScoreIgnoresHistory(hook, history, default) ==
    IF hook.kind = "returns" THEN hook.value ELSE default

\* score = default
\* if history and hook is not None:
\*     try: score = float(hook(history, sp))
\*     except Exception: score = default
HookScore(hook, history, default) ==
    IF history # <<>> /\ hook # NoHook
    THEN IF hook.kind = "returns" THEN hook.value ELSE default
    ELSE default

\* OmegaEstimator.estimate(obj, lenses, history) on the estimator self, whose
\* fields compute_sei and compute_iri stand for the two module globals
Estimate(self, lenses, history_arg) ==
    LET history   == HistoryOrEmpty(history_arg)
        reps      == KernelReps(self, lenses)
        names     == [i \in 1..Len(reps) |-> reps[i].name]
        metric    == [p \in PairSet(Len(reps)) |->
                         OmegaMetric(self.kernel, reps[p[1]], reps[p[2]])]
        sp        == Run(names, metric)
        inv       == OmegaClamp01(sp.invariance)
        prev_inv  == PrevInvariance(history, inv)
        delta_inv == PyAbs(PySub(inv, prev_inv))
    IN  [invariance |-> inv,
         delta_invariance |-> delta_inv,
         fractures |-> sp.fractures,
         sei |-> HookScore(self.compute_sei, history, ROne),
         iri |-> HookScore(self.compute_iri, history, RZero),
         meta |-> [n_views |-> sp.meta.n_views, epsilon |-> self.epsilon,
                   max_iters |-> self.max_iters, dedupe_views |-> self.dedupe_views]]

\* estimate appending its report to the list it was passed
HistoryAfterEstimateAppended(history, report) == Append(history, report)

\* the list object passed as history, after estimate returned: estimate rebinds
\* its local name (history or []) and reads history[-1]; no statement changes
\* the list
HistoryAfterEstimate(history, report) == history

\* converged measuring the last report against the first
ConvergedAgainstFirst(self, history) ==
    IF Len(history) < 2 THEN FALSE
    ELSE PyLess(PyAbs(PySub(history[Len(history)].invariance, history[1].invariance)),
                self.epsilon)

\* converged with <= in place of <
ConvergedNonStrict(self, history) ==
    IF Len(history) < 2 THEN FALSE
    ELSE LET n == Len(history)
         IN  ~PyLess(self.epsilon,
                     PyAbs(PySub(history[n].invariance, history[n - 1].invariance)))

\* OmegaEstimator.converged(history)
Converged(self, history) ==
    IF Len(history) < 2 THEN FALSE
    ELSE LET n == Len(history)
         IN  PyLess(PyAbs(PySub(history[n].invariance, history[n - 1].invariance)),
                    self.epsilon)

\* OmegaEstimator(kernel, epsilon[, dedupe_views]); the caller starts with an
\* empty history
OmegaInit ==
    /\ oest \in {<<[kernel |-> s, epsilon |-> e, max_iters |-> 10, dedupe_views |-> d,
                      compute_sei |-> NoHook, compute_iri |-> NoHook]>> :
                    s \in OmegaScales, e \in {<<1, 1000>>, <<1, 4>>}, d \in BOOLEAN}
    /\ ohist = <<>>
    /\ ocalls = <<>>
    /\ oconv = <<>>

\* an estimator in a process where omnia.sei and omnia.irreversibility may be
\* importable
OmegaHooksInit ==
    /\ oest \in {<<[kernel |-> <<3, 4>>, epsilon |-> <<1, 4>>, max_iters |-> 10,
                      dedupe_views |-> TRUE,
                      compute_sei |-> h[1], compute_iri |-> h[2]]>> : h \in HookPairs}
    /\ ohist = <<>>
    /\ ocalls = <<>>
    /\ oconv = <<>>

\* report = estimator.estimate(obj, lenses, history), or estimator.estimate(obj,
\* lenses) while the caller has no history yet
DoEstimate ==
    /\ Len(ocalls) < MaxCalls
    /\ \E lenses \in OmegaLensSets, passed \in (IF ohist = <<>> THEN BOOLEAN ELSE {TRUE}) :
       \E arg \in {IF passed THEN <<ohist>> ELSE <<>>} :
       \E rep \in {Estimate(oest[1], lenses, arg)} :
           /\ ocalls' = Append(ocalls, [lenses |-> lenses, history |-> arg, report |-> rep,
                                        kernel_reps |-> KernelReps(oest[1], lenses),
                                        appended |-> FALSE])
           /\ ohist' = IF passed THEN HistoryAfterEstimate(ohist, rep) ELSE ohist
    /\ UNCHANGED <<oest, oconv>>
    /\ UNCHANGED <<diffVars, zeaVars, genVars, kernVars, gateVars, permVars>>

\* history.append(report): the caller threads the report it received last, once
AppendReport ==
    /\ ocalls # <<>> /\ ~ocalls[Len(ocalls)].appended
    /\ ohist' = Append(ohist, ocalls[Len(ocalls)].report)
    /\ ocalls' = [ocalls EXCEPT ![Len(ocalls)].appended = TRUE]
    /\ UNCHANGED <<oest, oconv>>
    /\ UNCHANGED <<diffVars, zeaVars, genVars, kernVars, gateVars, permVars>>

\* estimator.converged(history), asked once in a run, at any point of it
DoConverged ==
    /\ oconv = <<>>
    /\ oconv' = <<[history |-> ohist, result |-> Converged(oest[1], ohist)]>>
    /\ UNCHANGED <<oest, ohist, ocalls>>
    /\ UNCHANGED <<diffVars, zeaVars, genVars, kernVars, gateVars, permVars>>

-----------------------------------------------------------------------------
(* omnia/lenses/permutation.py *)

MaxSegments == 4   \* most pieces between the dots of a text
MaxViewCalls == 2  \* most calls of views on one lens and text

Mask31 == 2147483647     \* 0x7FFFFFFF
LcgMul == 1103515245
LcgInc == 12345

\* n & 0x7FFFFFFF for -Mask31 <= n <= Mask31
And31(n) == IF n >= 0 THEN n ELSE (n + Mask31) + 1

\* (a + b) & 0x7FFFFFFF for a, b in 0..Mask31, no intermediate above Mask31
AddMask31(a, b) == IF a <= Mask31 - b THEN a + b ELSE (a - (Mask31 - b)) - 1

\* the one element of a set with one element
TheOne(S) == CHOOSE v \in S : TRUE

\* (a * b) & 0x7FFFFFFF for a, b in 0..Mask31, by doubling
RECURSIVE MulMask31(_, _)
MulMask31(a, b) ==
    IF b = 0 THEN 0
    ELSE TheOne({IF b % 2 = 1 THEN AddMask31(h, a) ELSE h :
                    h \in {MulMask31(a2, b2) : a2 \in {AddMask31(a, a)}, b2 \in {b \div 2}}})

\* the generator without its increment
LcgNextNoIncrement(x) == TheOne({MulMask31(LcgMul, xv) : xv \in {x}})

\* x = (1103515245 * x + 12345) & 0x7FFFFFFF
LcgNext(x) ==
    TheOne({AddMask31(m, LcgInc) : m \in {MulMask31(LcgMul, xv) : xv \in {x}}})

\* x = (self.seed + 1) & 0x7FFFFFFF
LcgStart(seed) == IF seed = Mask31 THEN 0 ELSE And31(seed + 1)

\* The text str(obj) is the sequence of the pieces text.split(".") gives, each
\* named by what p.strip() leaves of it ("" for an empty or blank piece).
SegmentNames == {"", "a", "b", "c"}
PermTexts == SeqUpTo(SegmentNames, MaxSegments)
PermSeeds == {-2, -1, 0, 1, 41, Mask31}

\* parts = [p.strip() for p in text.split(".") if p.strip()]
Parts(text) == SelectSeq(text, LAMBDA p : p # "")

SwapAt(idx, i, j) == [idx EXCEPT ![i] = idx[j], ![j] = idx[i]]

\* the loop for k in range(len(idx) - 1, 0, -1), from k down; place k of the
\* Python list is place k + 1 here
RECURSIVE Shuffle(_, _, _)
Shuffle(idx, x, k) ==
    IF k < 1 THEN idx
    ELSE TheOne({Shuffle(swapped, y, k - 1) :
                    y \in {LcgNext(x)},
                    swapped \in {SwapAt(i0, k + 1, (y0 % (k + 1)) + 1) :
                                     i0 \in {idx}, y0 \in {LcgNext(x)}}})

PermRep(name, payload, meta) == [name |-> name, payload |-> payload, meta |-> meta]

\* PermutationLens(seed=seed).views(text)
Views(seed, text) ==
    LET parts == Parts(text)
        orig  == PermRep(<<"orig">>, text, <<>>)
        idx   == Shuffle([i \in 1..Len(parts) |-> i], LcgStart(seed), Len(parts) - 1)
    IN  IF Len(parts) < 2 THEN <<orig>>
        ELSE <<orig, PermRep(<<"perm_seed", seed>>, [i \in 1..Len(parts) |-> parts[idx[i]]],
                             [seed |-> seed, n_parts |-> Len(parts)])>>

PermInit ==
    /\ perm_in \in {<<[seed |-> sd, text |-> t]>> : sd \in PermSeeds, t \in PermTexts}
    /\ perm_out = <<>>

\* lens.views(obj), once more on the same lens and object
DoViews ==
    /\ Len(perm_out) < MaxViewCalls
    /\ perm_out' = Append(perm_out, Views(perm_in[1].seed, perm_in[1].text))
    /\ UNCHANGED perm_in
    /\ UNCHANGED <<diffVars, zeaVars, genVars, kernVars, omegaVars, gateVars>>

-----------------------------------------------------------------------------
(* Specifications, one per component; the other components stay idle *)

ZeaIdle  == zcfg = <<>> /\ zin = <<>> /\ zrep = <<>>
GenIdle  == /\ gin = <<>> /\ gpc = "idle" /\ r = 0 /\ pool = <<>> /\ src = 0
            /\ next_pool = <<>> /\ accepted = <<>> /\ saturated = <<>>
            /\ rejected = <<>> /\ evals = <<>> /\ cap = <<>> /\ cert = <<>>
KernIdle == kin = <<>> /\ kout = <<>>
OmegaIdle == oest = <<>> /\ ohist = <<>> /\ ocalls = <<>> /\ oconv = <<>>
GateIdle == /\ ci_pc = "idle" /\ ci_args = <<>> /\ ci_file = <<>>
            /\ ci_exit = <<>> /\ ci_out = <<>>
PermIdle == perm_in = <<>> /\ perm_out = <<>>
OtherIdle == GateIdle /\ PermIdle

InitDiff == DiffInit /\ ZeaIdle /\ GenIdle /\ KernIdle /\ OmegaIdle /\ OtherIdle
NextDiff == DoCompare /\ UNCHANGED <<zeaVars, genVars, kernVars, omegaVars, gateVars, permVars>>
SpecDiff == InitDiff /\ [][NextDiff]_vars

NextDiffBoth ==
    /\ DoCompare \/ DoCompareBack
    /\ UNCHANGED <<zeaVars, genVars, kernVars, omegaVars, gateVars, permVars>>
SpecDiffBoth == InitDiff /\ [][NextDiffBoth]_vars

InitBuilt == BuiltInit /\ ZeaIdle /\ GenIdle /\ KernIdle /\ OmegaIdle /\ OtherIdle
NextBuilt ==
    /\ BuildA \/ BuildB \/ CompareBuilt
    /\ UNCHANGED <<zeaVars, genVars, kernVars, omegaVars, gateVars, permVars>>
SpecBuilt == InitBuilt /\ [][NextBuilt]_vars

InitZea == ZeaInit /\ DiffIdle /\ GenIdle /\ KernIdle /\ OmegaIdle /\ OtherIdle
NextZea == DoEvaluate /\ UNCHANGED <<diffVars, genVars, kernVars, omegaVars, gateVars, permVars>>
SpecZea == InitZea /\ [][NextZea]_vars

InitGen == GenInit /\ DiffIdle /\ ZeaIdle /\ KernIdle /\ OmegaIdle /\ OtherIdle
NextGen == BeginRound \/ ExpandSource \/ EndRound \/ Return \/ DoBuild
SpecGen == InitGen /\ [][NextGen]_vars

\* The same run seen from the caller: the generator exists, then generate is
\* called with some arguments and runs on (generate and build wait for nothing)
InitGenLive ==
    /\ gin = <<>> /\ gpc = "new" /\ r = 0 /\ pool = <<>> /\ src = 0
    /\ next_pool = <<>> /\ accepted = <<>> /\ saturated = <<>> /\ rejected = <<>>
    /\ evals = <<>> /\ cap = <<>> /\ cert = <<>>
    /\ DiffIdle /\ ZeaIdle /\ KernIdle /\ OmegaIdle /\ OtherIdle
CallGenerate ==
    /\ gpc = "new"
    /\ gin' \in [baseline : GenBaselines, rounds : -1..MaxRounds, top_k : -1..MaxTopK,
                 meta : GenMetas, zcfg : {DefaultZeaCfg}, measure : GenMeasures]
    /\ gin'.meta = ClashMeta => gin'.rounds = 1 /\ gin'.top_k = 1
    /\ gpc' = "for_round"
    /\ r' = 0
    /\ pool' = <<gin'.baseline>>
    /\ src' = 1
    /\ UNCHANGED <<next_pool, accepted, saturated, rejected, evals, cap, cert>>
    /\ UNCHANGED <<diffVars, zeaVars, kernVars, omegaVars, gateVars, permVars>>
NextGenLive == CallGenerate \/ BeginRound \/ ExpandSource \/ EndRound \/ Return \/ DoBuild
\* The control flow of generate alone: which statement runs next and how the two
\* loop counters move. generate is straight-line sequential code that waits for
\* nothing, so whenever one of its statements can run, it does.
GenerateAdvances ==
    \/ /\ gpc = "for_round" /\ ~RangeExhausted(r, gin.rounds)
       /\ gpc' = "for_source" /\ src' = 1 /\ r' = r
    \/ /\ gpc = "for_source" /\ src <= Len(pool)
       /\ gpc' = gpc /\ src' = src + 1 /\ r' = r
    \/ /\ gpc = "for_source" /\ src > Len(pool)
       /\ gpc' = "for_round" /\ src' = src /\ r' = r + 1
    \/ /\ gpc = "for_round" /\ RangeExhausted(r, gin.rounds)
       /\ gpc' = "returned" /\ src' = src /\ r' = r
SpecGenLive == InitGenLive /\ [][NextGenLive]_vars /\ WF_<<gpc, src, r>>(GenerateAdvances)

InitKern == KernInit /\ DiffIdle /\ ZeaIdle /\ GenIdle /\ OmegaIdle /\ OtherIdle
NextKern == DoRun
SpecKern == InitKern /\ [][NextKern]_vars

InitOmega == OmegaInit /\ DiffIdle /\ ZeaIdle /\ GenIdle /\ KernIdle /\ OtherIdle
NextOmega == DoEstimate \/ AppendReport \/ DoConverged
SpecOmega == InitOmega /\ [][NextOmega]_vars

InitOmegaHooks == OmegaHooksInit /\ DiffIdle /\ ZeaIdle /\ GenIdle /\ KernIdle /\ OtherIdle
SpecOmegaHooks == InitOmegaHooks /\ [][NextOmega]_vars

InitPerm == PermInit /\ DiffIdle /\ ZeaIdle /\ GenIdle /\ KernIdle /\ OmegaIdle /\ GateIdle
NextPerm == DoViews
SpecPerm == InitPerm /\ [][NextPerm]_vars

InitGate == GateInit /\ ZeaIdle /\ GenIdle /\ KernIdle /\ OmegaIdle /\ PermIdle
NextGate ==
    /\ GateLoadA \/ GateLoadB \/ GateCompare \/ GateWrite \/ GateDecide
    /\ UNCHANGED <<zeaVars, genVars, kernVars, omegaVars, permVars>>
SpecGate == InitGate /\ [][NextGate]_vars

-----------------------------------------------------------------------------
(* Claims about CASDiff.compare *)

DiffDone == diffOut # <<>>

CountDelta == Len(Bucket(certB, "accepted")) - Len(Bucket(certA, "accepted"))
CountDown  == CountDelta <= -dcfg.min_count_delta
CountUp    == CountDelta >= dcfg.min_count_delta
MarginDown == RLeq(diffOut[1].delta.accepted_mean_margin, RNeg(dcfg.min_margin_delta))
MarginUp   == RLeq(dcfg.min_margin_delta, diffOut[1].delta.accepted_mean_margin)
OmegaDown  == RLess(diffOut[1].delta.accepted_mean_delta_omega, RNeg(dcfg.eps))

\* C1: compare decides REGRESSION when the accepted count dropped by at least
\* min_count_delta, or the mean accepted margin dropped by at least
\* min_margin_delta, or the mean accepted delta-omega dropped below -eps;
\* otherwise PROGRESS when count and margin both rose by their thresholds and
\* delta-omega did not drop below -eps; otherwise STALL.
C1_VerdictOrder ==
    DiffDone =>
        diffOut[1].verdict.label =
            IF CountDown \/ MarginDown \/ OmegaDown THEN "REGRESSION"
            ELSE IF CountUp /\ MarginUp /\ ~OmegaDown THEN "PROGRESS"
            ELSE "STALL"

\* a single regression condition (delta-omega) wins although count and margin improved
C1_Witness ==
    /\ DiffDone
    /\ dcfg = DefaultDiffCfg
    /\ OmegaDown /\ ~CountDown /\ ~MarginDown
    /\ CountUp /\ MarginUp
    /\ diffOut[1].verdict.label = "REGRESSION"

\* thresholds under which a zero delta is neither a drop nor a rise
SaneDiffCfg ==
    /\ dcfg.min_count_delta >= 1
    /\ RLess(RZero, dcfg.min_margin_delta)
    /\ RLeq(RZero, dcfg.eps)
    /\ RLeq(RZero, dcfg.loop_tol)

\* C8: comparing a certificate to itself (default thresholds: min_count_delta >= 1,
\* min_margin_delta > 0, eps >= 0, loop_tol >= 0) yields STALL, signature
\* distance 0, loop_like true and all deltas 0.
C8_SelfCompare ==
    (DiffDone /\ certA = certB /\ SaneDiffCfg) =>
        /\ diffOut[1].verdict.label = "STALL"
        /\ diffOut[1].delta.signature_distance = RZero
        /\ diffOut[1].delta.loop_like
        /\ diffOut[1].verdict.loop_warning
        /\ diffOut[1].delta.accepted = 0
        /\ diffOut[1].delta.accepted_mean_margin = RZero
        /\ diffOut[1].delta.accepted_mean_delta_omega = RZero
        /\ diffOut[1].delta.accepted_mean_snrc_pressure = RZero

C8_Witness ==
    /\ DiffDone /\ certA = certB /\ dcfg = DefaultDiffCfg
    /\ Len(Bucket(certA, "accepted")) = MaxAcc /\ Len(Bucket(certA, "saturated")) > 0
    /\ diffOut[1].verdict.label = "STALL"

\* C9: when B's accepted count is A's minus 1 (default min_count_delta = 1),
\* the verdict is REGRESSION and the reason names the accepted-count drop.
C9_CountDropRegression ==
    (DiffDone /\ dcfg.min_count_delta <= 1 /\ CountDelta = -1) =>
        /\ diffOut[1].verdict.label = "REGRESSION"
        /\ diffOut[1].verdict.reason = "accepted_down_or_margin_down_or_delta_omega_down"

\* B is A with one accepted record fewer and everything else equal
C9_Witness ==
    /\ DiffDone /\ dcfg = DefaultDiffCfg /\ CountDelta = -1
    /\ Bucket(certA, "saturated") = Bucket(certB, "saturated")
    /\ Bucket(certA, "rejected") = Bucket(certB, "rejected")
    /\ diffOut[1].delta.accepted_mean_margin = RZero
    /\ diffOut[1].delta.accepted_mean_delta_omega = RZero
    /\ diffOut[1].delta.accepted_mean_snrc_pressure = RZero
    /\ diffOut[1].verdict.label = "REGRESSION"

-----------------------------------------------------------------------------
(* Claims about ZEA.evaluate_text *)

ZeaDone == zrep # <<>>

DeltaRegressed == LessThanMinus(zrep[1].delta_omega, zcfg.delta_omega_floor, zcfg.eps)
PressureAtMax  == AtLeastMinus(zrep[1].details.snrc_pressure, ROne, zcfg.eps)
NearBoundary   == AtMostPlus(zrep[1].saturation_margin, zcfg.saturated_margin_max, zcfg.eps)

ZeroDeltaAdmissibleCfg ==
    /\ RLeq(zcfg.delta_omega_floor, zcfg.eps)
    /\ ~AtMostPlus(ROne, zcfg.saturated_margin_max, zcfg.eps)

-----------------------------------------------------------------------------
(* Claims about ConstrainedGenerator.generate and CASBuilder.build *)

Built == cert # <<>>
BucketNames == {"accepted", "saturated", "rejected"}

\* the log entries of one round, and those of them ZEA classified ADMISSIBLE
RoundLog(rnd) == SelectSeq(evals, LAMBDA e : e.round = rnd)
RoundAccepted(rnd) == SelectSeq(RoundLog(rnd), LAMBDA e : e.rep.status = "ADMISSIBLE")
Margin(e) == e.rep.saturation_margin
Pairs(log) == [i \in 1..Len(log) |-> [cand |-> log[i].cand, rep |-> log[i].rep]]

\* C3: in a built certificate summary.status is SATURATED iff the result has no
\* accepted but some saturated items, ILLEGITIMATE iff it has neither, OPEN iff it
\* has an accepted item; stop_recommended is true iff the status is SATURATED or
\* ILLEGITIMATE; stop_reason is structural_saturation, noise_regime or continue
\* for SATURATED, ILLEGITIMATE and OPEN.
C3_StatusRollup ==
    Built =>
        LET s == cert[1].summary
        IN  /\ s.status \in {"OPEN", "SATURATED", "ILLEGITIMATE"}
            /\ s.status = "SATURATED" <=> (Len(accepted) = 0 /\ Len(saturated) > 0)
            /\ s.status = "ILLEGITIMATE" <=> (Len(accepted) = 0 /\ Len(saturated) = 0)
            /\ s.status = "OPEN" <=> Len(accepted) > 0
            /\ s.stop_recommended <=> s.status \in {"SATURATED", "ILLEGITIMATE"}
            /\ s.status = "SATURATED" => s.stop_reason = "structural_saturation"
            /\ s.status = "ILLEGITIMATE" => s.stop_reason = "noise_regime"
            /\ s.status = "OPEN" => s.stop_reason = "continue"

\* a certificate of a run that accepted nothing, saturated and rejected something
C3_Witness ==
    /\ Built
    /\ Len(accepted) = 0 /\ Len(saturated) > 0 /\ Len(rejected) > 0
    /\ cert[1].summary.status = "SATURATED"
    /\ cert[1].summary.stop_recommended
    /\ cert[1].summary.stop_reason = "structural_saturation"

\* p holds texts of distinct entries of acc, larger margins first, and no entry
\* left out has a larger margin than one kept; its length is k, at least 1, or
\* the length of acc if that is smaller
IsTopByMargin(p, acc, k) ==
    /\ Len(p) = Min2(Len(acc), Max2(1, k))
    /\ \E f \in [1..Len(p) -> 1..Len(acc)] :
          /\ \A i \in 1..Len(p) : p[i] = acc[f[i]].cand.text
          /\ \A i, j \in 1..Len(p) :
                i < j => f[i] # f[j] /\ RLeq(Margin(acc[f[j]]), Margin(acc[f[i]]))
          /\ \A j \in 1..Len(acc) : \A i \in 1..Len(p) :
                (\A h \in 1..Len(p) : f[h] # j) => RLeq(Margin(acc[j]), Margin(acc[f[i]]))

\* entries tagged by their index, so that equal texts are told apart
Tagged(acc) == [h \in 1..Len(acc) |-> <<h, Margin(acc[h])>>]
SwapMargins(np, i, j) ==
    [h \in 1..Len(np) |->
        <<np[h][1], IF h = i THEN np[j][2] ELSE IF h = j THEN np[i][2] ELSE np[h][2]>>]
\* the place of tag h in a pool, 0 if it was not kept
Place(kept, h) ==
    IF \E q \in 1..Len(kept) : kept[q][1] = h
    THEN CHOOSE q \in 1..Len(kept) : kept[q][1] = h
    ELSE 0

\* two entries of different margins that are kept both before and after their
\* margins are exchanged stand in the opposite order afterwards
SwapSwapsOrder(acc, k) ==
    \A i, j \in 1..Len(acc) :
        (i < j /\ Margin(acc[i]) # Margin(acc[j])) =>
            \A before \in {KeepTop(Tagged(acc), k)} :
            \A after \in {KeepTop(SwapMargins(Tagged(acc), i, j), k)} :
                (/\ Place(before, i) > 0 /\ Place(before, j) > 0
                 /\ Place(after, i) > 0 /\ Place(after, j) > 0)
                => (Place(before, i) < Place(before, j)
                        <=> Place(after, j) < Place(after, i))

\* C4: once round r - 1 is over, the pool holds only texts of the candidates that
\* round classified ADMISSIBLE, larger saturation_margin first, cut to top_k but to
\* no fewer than one text if any was accepted (also for top_k <= 0); exchanging the
\* margins of two accepted candidates exchanges their order in the pool; if the
\* round accepted nothing the pool is empty, and no candidate is evaluated in a
\* round that starts from an empty pool.
C4_NextPool ==
    (gpc \notin {"idle", "new"} /\ r >= 1) =>
        /\ IsTopByMargin(pool, RoundAccepted(r - 1), gin.top_k)
        /\ RoundAccepted(r - 1) # <<>> => Len(pool) >= 1
        /\ RoundAccepted(r - 1) = <<>> => pool = <<>>
        /\ SwapSwapsOrder(RoundAccepted(r - 1), gin.top_k)
        /\ pool = <<>> => \A i \in 1..Len(evals) : evals[i].round < r

\* a second round, run on what the first accepted, whose two best candidates were
\* kept with top_k = 2 in the order opposite to the one they were accepted in
C4_Witness ==
    /\ gpc = "for_round" /\ r = 2
    /\ gin.top_k = 2
    /\ Len(RoundAccepted(0)) >= 3
    /\ Len(RoundLog(1)) > 0
    /\ \E i, j \in 1..Len(RoundAccepted(1)) :
          /\ i < j
          /\ RLess(Margin(RoundAccepted(1)[i]), Margin(RoundAccepted(1)[j]))
          /\ pool = <<RoundAccepted(1)[j].cand.text, RoundAccepted(1)[i].cand.text>>

\* C5: every step of a run leaves the old contents of the three buckets in place
\* at their front; each bucket holds, in evaluation order, exactly the evaluated
\* candidates of its status (accepted ADMISSIBLE, saturated SATURATED, rejected
\* the rest); and the counts of a built certificate add up to the number of
\* candidates evaluated in the run.
C5_BucketsGrow ==
    [][/\ SubSeq(accepted', 1, Len(accepted)) = accepted
       /\ SubSeq(saturated', 1, Len(saturated)) = saturated
       /\ SubSeq(rejected', 1, Len(rejected)) = rejected
       /\ accepted' = Pairs(SelectSeq(evals', LAMBDA e : e.rep.status = "ADMISSIBLE"))
       /\ saturated' = Pairs(SelectSeq(evals', LAMBDA e : e.rep.status = "SATURATED"))
       /\ rejected' = Pairs(SelectSeq(evals', LAMBDA e :
                                e.rep.status \notin {"ADMISSIBLE", "SATURATED"}))
       /\ cert' # <<>> =>
             LET n == cert'[1].summary.counts
             IN  n.accepted + n.saturated + n.rejected = Len(evals')]_vars

\* a certificate of a two-round run with all three buckets filled in both rounds' wake
C5_Witness ==
    /\ Built
    /\ Len(RoundLog(0)) > 0 /\ Len(RoundLog(1)) > 0
    /\ Len(accepted) > 1 /\ Len(saturated) > 0 /\ Len(rejected) > 0

\* C10: in a built certificate every bucket holds at most max_items_per_bucket
\* records, they are the first items of the result's bucket in their order, and
\* summary.counts report the full bucket lengths.
C10_BucketCap ==
    Built =>
        \A name \in BucketNames :
            LET full   == GenerationResult[name]
                packed == cert[1].buckets[name]
            IN  /\ Len(packed) <= cap[1].max_items_per_bucket
                /\ Len(packed) <= Len(full)
                /\ \A i \in 1..Len(packed) :
                      packed[i] = PackItem(full[i].cand, full[i].rep)
                /\ cert[1].summary.counts[name] = Len(full)

\* a certificate built with max_items_per_bucket = -1 from three accepted or more
C10_Witness ==
    /\ Built
    /\ cap[1].max_items_per_bucket = -1
    /\ Len(accepted) >= 3
    /\ Len(cert[1].buckets.accepted) = Len(accepted) - 1

\* C11: generate starts from the pool [baseline]; when it returns, the round loop
\* has run exactly rounds times (no time for rounds < 0), whether or not a round
\* accepted anything; the result's baseline is the original baseline, and with
\* rounds = 0 the three buckets are empty; every call returns.
C11_RoundsAndTermination ==
    /\ []((gpc = "for_round" /\ r = 0) => pool = <<gin.baseline>>)
    /\ [](gpc \in {"returned", "built"} =>
            /\ r = Max2(0, gin.rounds)
            /\ GenerationResult.baseline = gin.baseline
            /\ gin.rounds = 0 =>
                  accepted = <<>> /\ saturated = <<>> /\ rejected = <<>>)
    /\ [](Built => cert[1].baseline.text = gin.baseline)
    /\ (gpc = "for_round" /\ r = 0) ~> (gpc = "returned")

\* a run of MaxRounds rounds has returned although its first round accepted nothing
C11_Witness ==
    /\ gpc = "returned"
    /\ gin.rounds = MaxRounds /\ r = MaxRounds
    /\ Len(RoundLog(0)) > 0 /\ RoundAccepted(0) = <<>>
    /\ pool = <<>>

-----------------------------------------------------------------------------
(* Claims about SuperpositionKernel.run *)

KernDone == kout # <<>> /\ kout[1] # TypeError
KernPairs == PairSet(Len(kin[1].names))
AllNumeric == \A p \in KernPairs : IsNum(kin[1].metric[p])
Clamp01(x) == IF RLess(x, RZero) THEN RZero ELSE IF RLess(ROne, x) THEN ROne ELSE x
MeanDistance ==
    RDivInt(RSum([h \in 1..Cardinality(KernPairs) |->
                     kin[1].metric[PairSeq(Len(kin[1].names))[h]]]),
            Cardinality(KernPairs))

\* C6: a run over N representations with numeric distances records the distance
\* of every one of the C(N,2) pairs under its key, the pairwise map has one entry
\* per pair, and invariance is 1 - mean of the distances clamped to [0, 1]; for
\* N <= 1 there is no entry, invariance is 1 and fractures is empty.
C6_AllPairs ==
    (KernDone /\ AllNumeric) =>
        LET n   == Len(kin[1].names)
            rep == kout[1]
        IN  /\ Cardinality(DOMAIN rep.pairwise) = Cardinality(KernPairs)
            /\ \A p \in KernPairs :
                  /\ PairKey(kin[1].names, p) \in DOMAIN rep.pairwise
                  /\ rep.pairwise[PairKey(kin[1].names, p)] = kin[1].metric[p]
            /\ n >= 2 => rep.invariance = Clamp01(RSub(ROne, MeanDistance))
            /\ n <= 1 => /\ DOMAIN rep.pairwise = {}
                         /\ rep.invariance = ROne
                         /\ rep.fractures = <<>>

\* three representations of one name, no two pairs at the same distance: the
\* three pairs share one key and the report keeps one entry
C6_Witness ==
    /\ KernDone /\ AllNumeric
    /\ Len(kin[1].names) = MaxReps
    /\ \A i \in 1..MaxReps : kin[1].names[i] = <<"orig">>
    /\ \A p, q \in KernPairs : p # q => kin[1].metric[p] # kin[1].metric[q]
    /\ Cardinality(DOMAIN kout[1].pairwise) = 1
    /\ Cardinality(KernPairs) > 1

InUnit(x) == IsNum(x) /\ RLeq(RZero, x) /\ RLeq(x, ROne)

\* C12: whatever the metric returns (NaN, a negative number, a number above 1),
\* every distance stored in the report's pairwise map lies in [0, 1], and so does
\* the reported invariance.
C12_DistancesClamped ==
    KernDone =>
        /\ \A k \in DOMAIN kout[1].pairwise : InUnit(kout[1].pairwise[k])
        /\ InUnit(kout[1].invariance)

\* two representations whose distance the metric gave as 3/2: the report stores 3/2
C12_Witness ==
    /\ KernDone
    /\ kin[1].names = <<<<"orig">>, <<"perm_1">>>>
    /\ kin[1].metric[<<1, 2>>] = <<3, 2>>
    /\ kout[1].pairwise[<<"orig", "__", "perm_1">>] = <<3, 2>>
    /\ kout[1].invariance = RZero

\* the threshold the caller asked for: the one passed, 0.5 when none is passed
AskedThreshold ==
    IF kin[1].fracture_threshold = <<>> THEN <<1, 2>> ELSE kin[1].fracture_threshold[1]

\* C13: a construction with or without a fracture threshold yields a kernel whose
\* run lists as fractures exactly the pairs whose distance is strictly above
\* that threshold (0.5 when none is given), each under the key name_i__name_j
\* with the names in input order, in the order of the pairs.
C13_FractureThreshold ==
    kout # <<>> =>
        /\ kout[1] # TypeError
        /\ LET ps   == PairSeq(Len(kin[1].names))
               frac == SelectSeq(ps, LAMBDA p : PyLess(AskedThreshold, kin[1].metric[p]))
           IN  kout[1].fractures = [h \in 1..Len(frac) |-> PairKey(kin[1].names, frac[h])]

\* a kernel asked for with fracture_threshold = 3/4: the construction raised
C13_Witness ==
    /\ kout = <<TypeError>>
    /\ kin[1].fracture_threshold = <<<<3, 4>>>>
    /\ kin[1].names = <<<<"perm_1">>, <<"orig">>>>

\* with no threshold passed, the pairs above 0.5 are the fractures, a pair at
\* exactly 0.5 is none, and the key keeps the input order of the names
C13_DefaultThreshold ==
    (KernDone /\ kin[1].fracture_threshold = <<>>) => C13_FractureThreshold

-----------------------------------------------------------------------------
(* Claims about OmegaEstimator *)

\* the history a logged call worked with
CallHistory(c) == HistoryOrEmpty(c.history)

\* C14: every report estimate returned has its invariance in [0, 1]; its
\* delta_invariance is |invariance - history[-1].invariance| when the call was
\* given a non-empty history, and 0 when the history was empty or omitted.
C14_DeltaInvariance ==
    \A i \in DOMAIN ocalls :
        LET c == ocalls[i]
            h == CallHistory(c)
        IN  /\ InUnit(c.report.invariance)
            /\ c.report.delta_invariance =
                  IF h # <<>>
                  THEN RAbs(RSub(c.report.invariance, h[Len(h)].invariance))
                  ELSE RZero

\* a third call with a history of two reports of different invariance, whose
\* delta is measured against the second
C14_Witness ==
    /\ Len(ocalls) = 3
    /\ Len(CallHistory(ocalls[3])) = 2
    /\ CallHistory(ocalls[3])[1].invariance # CallHistory(ocalls[3])[2].invariance
    /\ ocalls[3].report.invariance = CallHistory(ocalls[3])[1].invariance
    /\ ocalls[3].report.delta_invariance # RZero
    /\ ocalls[1].history = <<>> /\ ocalls[1].report.delta_invariance = RZero

\* C15: converged(history) is false for a history of fewer than two reports;
\* otherwise it is true exactly when the last two invariances differ by
\* strictly less than epsilon.
C15_Converged ==
    oconv # <<>> =>
        LET h == oconv[1].history
            n == Len(h)
        IN  oconv[1].result =
              (/\ n >= 2
               /\ RLess(RAbs(RSub(h[n].invariance, h[n - 1].invariance)), oest[1].epsilon))

\* a history of three reports: the first two equal, the last two exactly epsilon
\* apart, and converged answered false
C15_Witness ==
    /\ oconv # <<>>
    /\ Len(oconv[1].history) = 3
    /\ oconv[1].history[1].invariance = oconv[1].history[2].invariance
    /\ RAbs(RSub(oconv[1].history[3].invariance, oconv[1].history[2].invariance))
          = oest[1].epsilon
    /\ oconv[1].result = FALSE

-----------------------------------------------------------------------------
(* Claims about the loop detection of CASDiff.compare *)

SigKeys == <<"acc_rate", "sat_rate", "rej_rate",
             "acc_mean_margin", "acc_mean_domega", "acc_mean_snrc">>

\* a signature cut down to the keys in ks
SigOnly(sig, ks) == [k \in ks |-> sig[k]]

-----------------------------------------------------------------------------
(* Claims about certificates that lack fields *)

\* the items of a bucket that carry a number in the field, by index
NumericAt(items, key) ==
    {i \in DOMAIN items : key \in DOMAIN items[i] /\ IsNum(items[i][key])}
NumericPressureAt(items) ==
    {i \in DOMAIN items : /\ "details" \in DOMAIN items[i]
                          /\ "snrc_pressure" \in DOMAIN items[i].details
                          /\ IsNum(items[i].details.snrc_pressure)}
\* the mean of f over the indices idx, 0 when there is none
MeanAt(f, idx) ==
    IF idx = {} THEN RZero ELSE RDivInt(SumOver(f, idx), Cardinality(idx))

\* what compare is to report for one side: what the certificate has is used, what
\* it lacks counts as an empty collection, as an absent number, as None
DegradesGracefully(c, side) ==
    LET has(name) == "buckets" \in DOMAIN c /\ name \in DOMAIN c.buckets
        items(name) == IF has(name) THEN c.buckets[name] ELSE <<>>
        acc == items("accepted")
    IN  /\ \A name \in {"accepted", "saturated", "rejected"} :
              side.stats.counts[name] = Len(items(name))
        /\ side.stats.accepted.mean_margin =
              MeanAt([i \in DOMAIN acc |-> IF "saturation_margin" \in DOMAIN acc[i]
                                           THEN acc[i].saturation_margin ELSE NaN],
                     NumericAt(acc, "saturation_margin"))
        /\ side.stats.accepted.mean_delta_omega =
              MeanAt([i \in DOMAIN acc |-> IF "delta_omega" \in DOMAIN acc[i]
                                           THEN acc[i].delta_omega ELSE NaN],
                     NumericAt(acc, "delta_omega"))
        /\ side.stats.accepted.mean_snrc_pressure =
              MeanAt([i \in NumericPressureAt(acc) |-> acc[i].details.snrc_pressure],
                     NumericPressureAt(acc))
        /\ side.timestamp_utc =
              IF "timestamp_utc" \in DOMAIN c THEN c.timestamp_utc ELSE "None"
        /\ IF "summary" \in DOMAIN c THEN side.summary = c.summary ELSE side.summary = <<>>

-----------------------------------------------------------------------------
(* Claims about the ZEA configuration and snrc_candidate *)

\* C19: a ZEA is never built on a configuration whose SNRC aggregation mode is
\* neither "max" nor "mean": the construction reports the mode as invalid, so
\* no ZEA with such a mode exists and none evaluates a text.
C19_AggModeValidated == zcfg.snrc_agg \in {"max", "mean"}

\* a ZEA built with snrc_agg = "median" has evaluated a candidate, and the
\* pressure it reports is the maximum of the relative pressures, not their mean
C19_Witness ==
    /\ ZeaDone
    /\ zcfg.snrc_agg = "median"
    /\ zrep[1].details.pressure_details.agg = "median"
    /\ LET rel == zrep[1].details.pressure_details.relative_pressure
       IN  /\ zrep[1].details.snrc_pressure = MaxOver(rel, DOMAIN rel)
           /\ zrep[1].details.snrc_pressure #
                 RDivInt(SumOver(rel, DOMAIN rel), Cardinality(DOMAIN rel))

\* C20: in every report snrc_candidate is true exactly when the status is
\* SATURATED or ILLEGITIMATE and snrc_pressure is above 0.5; an ADMISSIBLE
\* report never has it, nor does a report made ILLEGITIMATE by a delta_omega
\* regression whose pressure is at most 0.5.
C20_SnrcCandidate ==
    ZeaDone =>
        LET rep == zrep[1]
            p   == rep.details.snrc_pressure
        IN  /\ rep.snrc_candidate =
                  (rep.status \in {"SATURATED", "ILLEGITIMATE"} /\ RLess(<<1, 2>>, p))
            /\ rep.status = "ADMISSIBLE" => ~rep.snrc_candidate
            /\ (rep.status = "ILLEGITIMATE" /\ DeltaRegressed /\ RLeq(p, <<1, 2>>))
                  => ~rep.snrc_candidate

\* an ADMISSIBLE report whose pressure is above 0.5: no candidate
C20_Witness ==
    /\ ZeaDone
    /\ zrep[1].status = "ADMISSIBLE"
    /\ RLess(<<1, 2>>, zrep[1].details.snrc_pressure)
    /\ ~zrep[1].snrc_candidate

-----------------------------------------------------------------------------
(* The CI gate *)

GateVerdict == diffOut[1].verdict.label
GateLoopWarning == diffOut[1].verdict.loop_warning
GateMustFail ==
    GateVerdict = "REGRESSION" \/ (ci_args[1].fail_on_loop /\ GateLoopWarning)

\* C21: main loads the two certificates, runs the Differ on them and writes
\* the diff report to the output file before it decides the outcome; once it
\* has decided, the exit status is 1 exactly when the verdict is REGRESSION, or
\* fail_on_loop is set and loop_warning is true, and in every other case
\* (a loop warning without the flag included) it prints PASS and exits 0.
C21_GateOutcome ==
    /\ [](ci_pc \in {"compared", "written", "exited"} =>
            /\ certA = ci_args[1].a /\ certB = ci_args[1].b
            /\ diffOut = <<Compare(certA, certB, DefaultDiffCfg)>>)
    /\ [](ci_pc \in {"written", "exited"} => ci_file = diffOut)
    /\ [](ci_pc \in {"start", "loaded_a", "loaded_b", "compared", "written"} =>
            ci_exit = <<>> /\ ci_out = <<>>)
    /\ [][ci_pc' = "exited" /\ ci_pc # "exited" =>
            ci_file # <<>> /\ ci_file = diffOut /\ ci_file' = ci_file]_vars
    /\ [](ci_pc = "exited" =>
            /\ ci_exit = <<1>> <=> GateMustFail
            /\ ci_exit = <<0>> <=> ~GateMustFail
            /\ (ci_out[Len(ci_out)] = "PASS") <=> ~GateMustFail
            /\ \A i \in 1..(Len(ci_out) - 1) : ci_out[i] # "PASS")

\* a loop warning fails the gate only because the flag asks for it
C21_Witness ==
    /\ ci_pc = "exited" /\ ci_exit = <<1>>
    /\ GateVerdict # "REGRESSION" /\ GateLoopWarning
    /\ ci_args[1].fail_on_loop

-----------------------------------------------------------------------------
(* The SNRC pressure of ZEA *)

PressureDetails == zrep[1].details.pressure_details
RelOf(k) == PressureDetails.relative_pressure[k]
BaseScore(k) == PressureDetails.baseline_scores[k]
CandScore(k) == PressureDetails.candidate_scores[k]

\* (c - b) / max(eps, b + 1e-6), clamped into [0,1]
ClampedRelativeIncrease(b, c, eps) ==
    LET shifted == RAdd(b, <<1, 1000000>>)
        denom == IF RLess(eps, shifted) THEN shifted ELSE eps
        q == RDiv(RSub(c, b), denom)
    IN  IF RLess(q, RZero) THEN RZero ELSE IF RLess(ROne, q) THEN ROne ELSE q

\* C22: for every lens family the relative pressure is
\* clamp((c - b) / max(eps, b + 1e-6), 0, 1) of the baseline score b and the
\* candidate score c, and it is 0 where the candidate is not more unstable
\* than the baseline; snrc_pressure is the mean of the three values when
\* snrc_agg is "mean" and their maximum otherwise; saturation_margin is
\* max(0, 1 - snrc_pressure); both lie in [0,1] and margin = 1 - pressure.
C22_SnrcPressure ==
    ZeaDone =>
        LET p == zrep[1].details.snrc_pressure
            m == zrep[1].saturation_margin
        IN  /\ DOMAIN PressureDetails.relative_pressure = LensNames
            /\ \A k \in LensNames :
                  /\ RelOf(k) = ClampedRelativeIncrease(BaseScore(k), CandScore(k), zcfg.eps)
                  /\ RLeq(CandScore(k), BaseScore(k)) => RelOf(k) = RZero
                  /\ InUnit(RelOf(k))
            /\ IF zcfg.snrc_agg = "mean"
                  THEN p = RDivInt(RAdd(RelOf("compression"),
                                        RAdd(RelOf("permutation"), RelOf("constraints"))), 3)
                  ELSE /\ \E k \in LensNames : p = RelOf(k)
                       /\ \A k \in LensNames : RLeq(RelOf(k), p)
            /\ InUnit(p) /\ InUnit(m)
            /\ m = RSub(ROne, p)
            /\ m = (IF RLess(RSub(ROne, p), RZero) THEN RZero ELSE RSub(ROne, p))

\* mean aggregation of three different relative pressures, one of them 0
C22_Witness ==
    /\ ZeaDone /\ zcfg.snrc_agg = "mean"
    /\ RelOf("compression") = RZero
    /\ RLess(RZero, RelOf("permutation"))
    /\ RLess(RelOf("permutation"), RelOf("constraints"))
    /\ RLess(RZero, zrep[1].saturation_margin)
    /\ RLess(zrep[1].saturation_margin, ROne)

-----------------------------------------------------------------------------
(* The candidates of one source *)

\* the stripped output of the n-th operator on a source, and whether it counts
OpOutput(n, source) == Strip(ApplyOp(OpNames[n], source))
OpIndex(op) == CHOOSE n \in 1..Len(OpNames) : OpNames[n] = op
IsFresh(n, source) ==
    /\ ~IsEmptyOut(ApplyOp(OpNames[n], source))
    /\ OpOutput(n, source) # EmptyText
    /\ OpOutput(n, source) # source
    /\ \A m \in 1..(n - 1) : OpOutput(m, source) # OpOutput(n, source)

\* what one pass of the inner loop over a source adds to the evaluation log
NewEvals == SubSeq(evals', Len(evals) + 1, Len(evals'))

\* C23: the candidates evaluated for a source come from the six operators in
\* their fixed order; the n-th operator contributes a Candidate exactly when
\* its output is non-empty, differs from the source and differs from the
\* output of every earlier operator; the Candidate carries that output and is
\* tagged with the operator's name; so no Candidate equals the source or
\* another Candidate of the same source.
C23_CandidateSet ==
    [][(gpc = "for_source" /\ src <= Len(pool) /\ src' = src + 1) =>
        LET source == pool[src]
            new == NewEvals
        IN  /\ Len(OpNames) = 6
            /\ \A i \in 1..Len(new) :
                  /\ new[i].cand.op \in Range(OpNames)
                  /\ new[i].cand.meta = [op |-> new[i].cand.op]
                  /\ new[i].cand.text = OpOutput(OpIndex(new[i].cand.op), source)
                  /\ new[i].cand.text # EmptyText
                  /\ new[i].cand.text # source
            /\ \A i, j \in 1..Len(new) :
                  i < j => /\ new[i].cand.text # new[j].cand.text
                           /\ OpIndex(new[i].cand.op) < OpIndex(new[j].cand.op)
            /\ \A n \in 1..Len(OpNames) :
                  (\E i \in 1..Len(new) : new[i].cand.op = OpNames[n])
                      <=> IsFresh(n, source)]_vars

\* the baseline was expanded: one operator returned it unchanged, two others
\* agreed on an output, and only the first of the two became a Candidate
C23_Witness ==
    /\ gpc = "for_source" /\ r = 0 /\ src = 2
    /\ \E n \in 1..Len(OpNames) : OpOutput(n, gin.baseline) = gin.baseline
    /\ \E m, n \in 1..Len(OpNames) :
          /\ m < n /\ IsFresh(m, gin.baseline)
          /\ OpOutput(n, gin.baseline) = OpOutput(m, gin.baseline)
          /\ \E i \in 1..Len(evals) : evals[i].cand.op = OpNames[m]
          /\ \A i \in 1..Len(evals) : evals[i].cand.op # OpNames[n]

-----------------------------------------------------------------------------
(* What generate hands to ZEA *)

BaselineReading == gin.measure[TextKey(gin.baseline)]

\* the report was computed with the baseline of generate on the baseline side
AgainstBaseline(e) ==
    /\ e.rep.omega_before = EstimateFromText(BaselineReading)
    /\ e.rep.details.pressure_details.baseline_scores = LensInstabilityScores(BaselineReading)
    /\ e.rep = EvaluateText(gin.zcfg, BaselineReading, gin.measure[TextKey(e.cand.text)],
                            e.rep.details.meta)

\* C24: every evaluated Candidate of every round was classified against the
\* baseline passed to generate, and the metadata of its report holds the round
\* index under "round", the operator name under "op", and every entry of the
\* caller's metadata.
C24_BaselineAndMeta ==
    \A i \in 1..Len(evals) :
        LET e == evals[i]
            m == e.rep.details.meta
        IN  /\ AgainstBaseline(e)
            /\ {"round", "op"} \cup DOMAIN gin.meta \subseteq DOMAIN m
            /\ m["round"] = e.round
            /\ m["op"] = e.cand.op
            /\ \A k \in DOMAIN gin.meta : m[k] = gin.meta[k]

\* every evaluation is against the baseline, whatever the caller's metadata
AlwaysAgainstBaseline ==
    \A i \in 1..Len(evals) : AgainstBaseline(evals[i])

\* round and operator are in the metadata when the caller does not use the keys
MetaWithoutClash ==
    ({"round", "op"} \cap DOMAIN gin.meta = {}) =>
        \A i \in 1..Len(evals) :
            LET m == evals[i].rep.details.meta
            IN  /\ m["round"] = evals[i].round /\ m["op"] = evals[i].cand.op
                /\ \A k \in DOMAIN gin.meta : m[k] = gin.meta[k]

\* a candidate of round 0 whose report says round 7, operator "manual"
C24_Witness ==
    /\ gin.meta = ClashMeta
    /\ \E i \in 1..Len(evals) :
          /\ evals[i].round = 0
          /\ evals[i].rep.details.meta["round"] = 7
          /\ evals[i].rep.details.meta["op"] = "manual"
          /\ evals[i].cand.op = "_op_add_structural_clauses"

\* a candidate of round 1 derived from a pool text that reads differently
\* from the baseline
PoolDiffersFromBaseline ==
    /\ r = 1 /\ gpc = "for_source" /\ src = 2
    /\ gin.measure[TextKey(pool[1])] # BaselineReading
    /\ \E i \in 1..Len(evals) : evals[i].round = 1

-----------------------------------------------------------------------------
(* The views estimate hands to the kernel *)

RECURSIVE TotalViews(_)
TotalViews(lenses) ==
    IF lenses = <<>> THEN 0 ELSE Len(Head(lenses)) + TotalViews(Tail(lenses))

\* the i-th view of the l-th lens sits at place TotalViews(first l-1 lenses) + i
PlaceOf(lenses, l, i) == TotalViews(SubSeq(lenses, 1, l - 1)) + i

\* all is the views of the lenses, lens after lens, each in its own order
IsConcatenation(all, lenses) ==
    /\ Len(all) = TotalViews(lenses)
    /\ \A l \in 1..Len(lenses) : \A i \in 1..Len(lenses[l]) :
          all[PlaceOf(lenses, l, i)] = lenses[l][i]

\* kept is all with, for every name, the first view of that name only
IsFirstOccurrences(kept, all) ==
    \E f \in [1..Len(kept) -> 1..Len(all)] :
        /\ \A h \in 1..Len(kept) : kept[h] = all[f[h]]
        /\ \A g, h \in 1..Len(kept) : g < h => f[g] < f[h]
        /\ \A h \in 1..Len(kept) : \A j \in 1..(f[h] - 1) : all[j].name # all[f[h]].name
        /\ \A j \in 1..Len(all) : \E h \in 1..Len(kept) : kept[h].name = all[j].name

OrigCount(reps) == Cardinality({i \in 1..Len(reps) : reps[i].name = <<"orig">>})

ViewsAsCollected(c) ==
    \E all \in {CollectViews(c.lenses)} :
        /\ IsConcatenation(all, c.lenses)
        /\ IF oest[1].dedupe_views
              THEN /\ IsFirstOccurrences(c.kernel_reps, all)
                   /\ \A g, h \in 1..Len(c.kernel_reps) :
                         g # h => c.kernel_reps[g].name # c.kernel_reps[h].name
              ELSE c.kernel_reps = all
        /\ c.report.meta.n_views = Len(c.kernel_reps)

\* C25 as stated: with deduplication the kernel always receives exactly one
\* orig view.
C25_ExactlyOneOrig ==
    \A n \in 1..Len(ocalls) :
        /\ ViewsAsCollected(ocalls[n])
        /\ oest[1].dedupe_views => OrigCount(ocalls[n].kernel_reps) = 1

\* C25: the kernel receives the views of the lenses concatenated in lens order,
\* each lens in its own order; with deduplication only the first view of every
\* name, the survivors in their old order, so the names are pairwise distinct
\* and there is at most one orig view, exactly one when a lens was given;
\* without it the views pass unchanged.
C25_ViewsHandedToKernel ==
    \A n \in 1..Len(ocalls) :
        /\ ViewsAsCollected(ocalls[n])
        /\ oest[1].dedupe_views =>
              /\ OrigCount(ocalls[n].kernel_reps) <= 1
              /\ ocalls[n].lenses # <<>> => OrigCount(ocalls[n].kernel_reps) = 1

\* two lenses, both with an orig view, deduplicated to three views
C25_Witness ==
    /\ oest # <<>> /\ oest[1].dedupe_views
    /\ \E n \in 1..Len(ocalls) :
          /\ Len(ocalls[n].lenses) = 2
          /\ Len(ocalls[n].kernel_reps) = 3
          /\ OrigCount(CollectViews(ocalls[n].lenses)) = 2
          /\ ocalls[n].kernel_reps[1].name = <<"orig">>

\* estimate called without lenses: the kernel receives no view at all
C25_NoLens ==
    \E n \in 1..Len(ocalls) :
        /\ oest[1].dedupe_views
        /\ ocalls[n].lenses = <<>> /\ ocalls[n].kernel_reps = <<>>
        /\ ocalls[n].report.meta.n_views = 0

-----------------------------------------------------------------------------
(* The auxiliary scores of estimate *)

IsOmegaReport(rep) ==
    DOMAIN rep = {"invariance", "delta_invariance", "fractures", "sei", "iri", "meta"}

HookFails(hook) == hook.kind \in {"None", "raises", "returns_text"}

\* C26: every call of estimate returns a report, whatever the two hooks do;
\* sei is 1.0 when compute_sei is missing, raises or returns something that
\* is no number, iri is 0.0 in the same cases of compute_iri, and both have
\* these values when the history is empty (the hooks are not asked then);
\* otherwise the score is the number the hook returned.
C26_AuxiliaryScores ==
    \A n \in 1..Len(ocalls) :
        LET c == ocalls[n]
            history == HistoryOrEmpty(c.history)
            sei == oest[1].compute_sei
            iri == oest[1].compute_iri
        IN  /\ IsOmegaReport(c.report)
            /\ HookFails(sei) => c.report.sei = ROne
            /\ HookFails(iri) => c.report.iri = RZero
            /\ history = <<>> => c.report.sei = ROne /\ c.report.iri = RZero
            /\ (history # <<>> /\ ~HookFails(sei)) => c.report.sei = sei.value
            /\ (history # <<>> /\ ~HookFails(iri)) => c.report.iri = iri.value

\* a call with a history in which compute_sei raised and compute_iri answered
C26_Witness ==
    \E n \in 1..Len(ocalls) :
        /\ HistoryOrEmpty(ocalls[n].history) # <<>>
        /\ oest[1].compute_sei = HookRaises
        /\ oest[1].compute_iri = HookReturns(<<1, 4>>)
        /\ ocalls[n].report.sei = ROne
        /\ ocalls[n].report.iri = <<1, 4>>

-----------------------------------------------------------------------------
(* The permutation lens *)

\* (1103515245 x + 12345) mod 2^31 for 0 <= x < 2^31, with both factors cut
\* into a low part of 15 bits and a high part: of the four partial products
\* only what falls below 2^31 is formed
LcgStepByLimbs(x) ==
    LET Limb == 32768
        xl == x % Limb
        xh == x \div Limb
        ml == LcgMul % Limb
        mh == LcgMul \div Limb
        low   == ml * xl
        cross == ((((mh * xl) % (2 * Limb)) + ((ml * xh) % (2 * Limb))) % (2 * Limb)) * Limb
        high  == ((mh % 2) * (xh % 2)) * (Limb * Limb)
    IN  AddMask31(AddMask31(AddMask31(low, cross), high), LcgInc)

\* the generator after n steps from (seed + 1) mod 2^31
RECURSIVE LcgAt(_, _)
LcgAt(seed, n) ==
    IF n = 0 THEN (IF seed < -1 THEN (Mask31 + seed) + 2
                   ELSE IF seed = Mask31 THEN 0 ELSE seed + 1)
    ELSE TheOne({LcgStepByLimbs(x) : x \in {LcgAt(seed, n - 1)}})

\* the order of n segments once the places n-1 down to k (counted from 0) have
\* been swapped: place k is swapped with x mod (k + 1), x the generator's
\* value at step n - k
RECURSIVE OrderAfter(_, _, _)
OrderAfter(n, seed, k) ==
    IF k >= n THEN [i \in 1..n |-> i]
    ELSE TheOne({SwapAt(before, k + 1, (x % (k + 1)) + 1) :
                    before \in {OrderAfter(n, seed, k + 1)}, x \in {LcgAt(seed, n - k)}})

IsPermutationOf(order, n) ==
    /\ Len(order) = n
    /\ {order[i] : i \in 1..n} = 1..n

\* C27: views returns the orig view alone when the text has fewer than 2
\* non-empty segments; otherwise orig and exactly one more view, named after
\* the seed, whose segments are those of the text in the order obtained from
\* x0 = (seed + 1) mod 2^31 and x = (1103515245 x + 12345) mod 2^31 by
\* swapping place k with place x mod (k + 1) for k from the last place down
\* to 1; that order is a permutation of the segments; every call with the same
\* seed and text returns the same views.
C27_PermutationLens ==
    \A c \in 1..Len(perm_out) :
        LET out   == perm_out[c]
            seed  == perm_in[1].seed
            parts == Parts(perm_in[1].text)
            n     == Len(parts)
        IN  /\ out[1] = PermRep(<<"orig">>, perm_in[1].text, <<>>)
            /\ n < 2 => Len(out) = 1
            /\ n >= 2 =>
                  \E order \in {OrderAfter(n, seed, 1)} :
                      /\ Len(out) = 2
                      /\ out[2].name = <<"perm_seed", seed>>
                      /\ IsPermutationOf(order, n)
                      /\ out[2].payload = [i \in 1..n |-> parts[order[i]]]
                      /\ out[2].meta = [seed |-> seed, n_parts |-> n]
            /\ out = perm_out[1]

\* two calls on "a. . b. c." with the default seed 0: both return
\* "c. b. a." as the second view
C27_Witness ==
    /\ Len(perm_out) = 2
    /\ perm_in[1].seed = 0
    /\ perm_in[1].text = <<"a", "", "b", "c">>
    /\ Len(perm_out[2]) = 2
    /\ perm_out[2][2].payload = <<"c", "b", "a">>

\* what the lens of the source returns for other seeds and texts
PermutationSamples ==
    /\ Views(-2, <<"a", "b", "c", "a">>)[2].payload = <<"b", "c", "a", "a">>
    /\ Views(-1, <<"a", "", "b", "c">>)[2].payload = <<"b", "c", "a">>
    /\ Views(1, <<"a", "b", "c", "a">>)[2].payload = <<"a", "c", "b", "a">>
    /\ Views(41, <<"a", "", "b", "c">>)[2].payload = <<"b", "c", "a">>
    /\ Views(Mask31, <<"a", "b", "c", "a">>)[2].payload = <<"a", "c", "a", "b">>
    /\ LcgNext(LcgNext(LcgNext(42))) = 1000676753

-----------------------------------------------------------------------------
(* converged and delta_invariance *)

\* h was built as in the demo: its n-th entry is the report of the n-th call
\* of estimate, and that call was given the entries before it as history
IsThreaded(h) ==
    /\ Len(h) <= Len(ocalls)
    /\ \A n \in 1..Len(h) :
          /\ h[n] = ocalls[n].report
          /\ HistoryOrEmpty(ocalls[n].history) = SubSeq(h, 1, n - 1)

\* C28: for a history built by calling estimate with the history so far and
\* appending every report, of at least 2 entries, converged(history) is true
\* exactly when the delta_invariance of the last report is below epsilon.
C28_ConvergedIsLastDelta ==
    (oconv # <<>> /\ Len(oconv[1].history) >= 2 /\ IsThreaded(oconv[1].history)) =>
        LET h == oconv[1].history
        IN  oconv[1].result = PyLess(h[Len(h)].delta_invariance, oest[1].epsilon)

\* three threaded reports, the last within epsilon of the second but not of
\* the first: converged
C28_Witness ==
    /\ oconv # <<>> /\ Len(oconv[1].history) = 3 /\ IsThreaded(oconv[1].history)
    /\ oconv[1].result = TRUE
    /\ oconv[1].history[3].delta_invariance # RZero
    /\ ~PyLess(PyAbs(PySub(oconv[1].history[3].invariance, oconv[1].history[1].invariance)),
                oest[1].epsilon)

-----------------------------------------------------------------------------
(* compare with its arguments exchanged *)

\* C30: for every pair of certificates and every configuration, PROGRESS from
\* compare(a, b) means REGRESSION from compare(b, a); signature_distance and
\* loop_like (and the loop warning taken from it) are the same in both
\* reports; neither call changes a or b.
C30_ExchangedArguments ==
    /\ [](diffRev # <<>> =>
            /\ diffOut[1].verdict.label = "PROGRESS" =>
                  diffRev[1].verdict.label = "REGRESSION"
            /\ diffRev[1].delta.signature_distance = diffOut[1].delta.signature_distance
            /\ diffRev[1].delta.loop_like = diffOut[1].delta.loop_like
            /\ diffRev[1].verdict.loop_warning = diffOut[1].verdict.loop_warning)
    /\ [][certA' = certA /\ certB' = certB]_vars

\* PROGRESS one way, REGRESSION the other, at a signature distance above 0
C30_Witness ==
    /\ diffRev # <<>>
    /\ diffOut[1].verdict.label = "PROGRESS"
    /\ diffRev[1].verdict.label = "REGRESSION"
    /\ RLess(RZero, diffOut[1].delta.signature_distance)
    /\ certA # certB

-----------------------------------------------------------------------------
(* The Differ on capped certificates *)

RunCap == bres[1].cfg.max_items_per_bucket
AcceptedOfA == Len(bres[1].a.accepted)
AcceptedOfB == Len(bres[1].b.accepted)
SeenOfA == diffOut[1].a.stats.counts.accepted
SeenOfB == diffOut[1].b.stats.counts.accepted

\* the Differ counts the records of the bucket lists, whatever summary.counts says
CountsFromLists ==
    /\ SeenOfA = Len(certA.buckets.accepted)
    /\ SeenOfB = Len(certB.buckets.accepted)
    /\ diffOut[1].delta.accepted = SeenOfB - SeenOfA

\* C29: compare takes the accepted count of a certificate from the length of
\* its bucket list, not from summary.counts; for certificates built by
\* CASBuilder that count is min(accepted items of the run, max_items_per_bucket),
\* and when both runs accepted more than the cap the accepted delta is 0.
C29_CappedCounts ==
    diffOut # <<>> =>
        /\ CountsFromLists
        /\ SeenOfA = Min2(AcceptedOfA, RunCap)
        /\ SeenOfB = Min2(AcceptedOfB, RunCap)
        /\ (AcceptedOfA > RunCap /\ AcceptedOfB > RunCap) => diffOut[1].delta.accepted = 0

\* the same for the caps that are not negative
CappedCountsFromZero ==
    (diffOut # <<>> /\ RunCap >= 0) =>
        /\ CountsFromLists
        /\ SeenOfA = Min2(AcceptedOfA, RunCap)
        /\ SeenOfB = Min2(AcceptedOfB, RunCap)
        /\ (AcceptedOfA > RunCap /\ AcceptedOfB > RunCap) => diffOut[1].delta.accepted = 0

\* cap -1, runs of 2 and 3 accepted items: the Differ sees 1 and 2, delta 1,
\* while summary.counts says 2 and 3
C29_Witness ==
    /\ diffOut # <<>>
    /\ RunCap = -1 /\ AcceptedOfA = 2 /\ AcceptedOfB = 3
    /\ SeenOfA = 1 /\ SeenOfB = 2
    /\ diffOut[1].delta.accepted = 1
    /\ certA.summary.counts.accepted = 2 /\ certB.summary.counts.accepted = 3

\* cap 2, runs of 3 and 2 accepted items: both seen as 2, delta 0, verdict not
\* REGRESSION
CapHidesDrop ==
    /\ diffOut # <<>>
    /\ RunCap = 2 /\ AcceptedOfA = 3 /\ AcceptedOfB = 2
    /\ SeenOfA = 2 /\ SeenOfB = 2
    /\ diffOut[1].delta.accepted = 0

====
